---------------------------- MODULE Spec2Model ----------------------------
(***************************************************************************)
(* Desktop Manager Pro: the polling scheduler (EventMonitor), its window   *)
(* differencer, and the rule engine (RuleEngine.process_event).            *)
(*                                                                         *)
(* Four specifications share the variables below:                          *)
(*   SpecPoll     one worker's poll loop: snapshot, diff, event delivery   *)
(*   SpecSched    start/stop against the worker threads, one long interval *)
(*   SpecInterval set/get_polling_interval with every kind of argument     *)
(*   SpecEngine   process_event: store update, rule evaluation, dispatch   *)
(* Each specification leaves the variables of the others at their initial  *)
(* values.                                                                 *)
(***************************************************************************)
EXTENDS Integers, Sequences, FiniteSets, TLC

(***************************************************************************)
(* Bounds of the model.                                                    *)
(***************************************************************************)
MaxHandle == 2
MaxWorkers == 2         \* threads that start() may create in one run
MaxCycles == 3          \* poll cycles that are counted; the loop goes on after them
MaxEvents == 2          \* process_event calls between two clear_statistics
MaxRules == 3           \* rules of a list handed to the sort

Handles == 1..MaxHandle

(***************************************************************************)
(* A snapshot is the dict built by enum_callback: hwnd -> title and        *)
(* class_name, for some of the handles (windows without a title are not    *)
(* entered, so every title of a snapshot is non-empty).                    *)
(***************************************************************************)
BasicInfo ==
    {[title |-> "a", class_name |-> "x"], [title |-> "b", class_name |-> "x"],
     [title |-> "a", class_name |-> "y"]}

Snapshots == UNION {[hs -> BasicInfo] : hs \in SUBSET Handles}

EmptySnapshot == [h \in {} |-> [title |-> "a", class_name |-> "x"]]

VARIABLES
    \* ---- the poll loop (EventMonitor._run_message_loop) ----
    previous_windows,   \* the loop's previous_windows dict
    current_windows,    \* the snapshot of the last completed cycle
    cycle_prev,         \* previous_windows as it was when that cycle began
    new_windows,        \* the three sets of the last completed cycle
    closed_windows,
    changed_windows,
    delivered,          \* event_callback calls of the last cycle, in order
    cycle_status        \* "none", or how the last cycle ended: "ok", "error"

VARIABLES
    \* ---- the scheduler (EventMonitor start/stop/set_polling_interval) ----
    running,            \* self.running
    monitoring_thread,  \* self.monitoring_thread: 0 for None, else a worker
    polling_interval,   \* self.polling_interval, in hundredths of a second
    interval_lock,      \* owner of self.interval_lock: 0 when free
    wpc,                \* where each worker thread is in _run_message_loop
    wtimer,             \* what is left of a worker's time.sleep
    current_interval,   \* each worker's local current_interval
    wcycles,            \* the poll cycles begun so far, up to MaxCycles
    cpc,                \* where the calling thread is in start/stop/set/get
    ctimer,             \* what is left of the caller's sleep(0.1) or join(5.0)
    carg,               \* the caller's local "interval" after clamping
    last_call,          \* the last call that returned, and what it returned
    stop_in_sleep       \* the pending stop() was called with the worker asleep

schedVars == <<running, monitoring_thread, polling_interval, interval_lock,
               wpc, wtimer, current_interval, wcycles, cpc, ctimer, carg, last_call,
               stop_in_sleep>>

VARIABLES
    \* ---- the rule engine (RuleEngine) ----
    rules_config,           \* self.rules_config: the list of rule dicts
    internal_window_state,  \* self._internal_window_state: hwnd -> window info
    event_count,            \* self._event_count
    rule_execution_count,   \* self._rule_execution_count: name -> count
    last_event,             \* the arguments of the last process_event call
    dispatch_log,           \* its perform_action calls, in order
    evaluated,              \* the rules whose trigger it tested, in order
    faults,                 \* name -> what goes wrong when that rule is handled
    dispatch_results,       \* what each perform_action call of it returned
    os_calls,               \* the OS primitives it made the helpers call
    event_calls,            \* process_event calls made so far
    cleared_at,             \* event_calls at the last clear_statistics
    match_probe,            \* the first and last result of a repeated match
    count_load              \* the self._event_count a process_event call has read

VARIABLES
    \* ---- the desktop the actions work on ----
    desktop,                \* hwnd -> class and folder of each open window
    folder_path_cache,      \* cache.folder_path_cache: hwnd -> cached folder
    foreground_hwnd         \* what GetForegroundWindow() returns (0: no window)

VARIABLES
    \* ---- calls made outside process_event ----
    sort_call,              \* the last sort_rules_by_priority call and its result
    cycle_store,            \* the store when the last poll cycle began
    cycle_calls,            \* the OS primitives called during that cycle
    load_call               \* the entries load_rules was given and its result

VARIABLES
    \* ---- what the engine handed to its callers ----
    state_copy,             \* the dict get_window_state returned, as its caller sees it
    stats_copy              \* the dict get_statistics returned, as its caller sees it

callerVars == <<state_copy, stats_copy>>

VARIABLES
    \* ---- the store lock and the threads that take it ----
    store_lock,             \* "free" or the thread inside with self._window_state_lock
    lock_at,                \* where each thread is in the engine
    refresh_todo,           \* the handles _initialize_window_state has still to query
    lock_event              \* the event the monitor thread is processing

lockVars == <<store_lock, lock_at, refresh_todo, lock_event>>

VARIABLES
    \* ---- what the last poll cycle handed out ----
    cycle_events,           \* the event_callback calls: id, hwnd and window_info
    info_queries,           \* the handles get_window_info was called for
    window_info_cache       \* cache.window_info_cache, the entries not expired

cycleVars == <<cycle_events, info_queries, window_info_cache>>

VARIABLES
    \* ---- one LRUCache of cache.py ----
    lru,                    \* self.cache, oldest entry first, and self.timestamps
    lru_clock,              \* time.time()
    lru_last_set,           \* the value of the last set call of each key
    lru_result              \* the last call and what it returned; odd tells a
                            \* call from the same call made before it

cacheVars == <<lru, lru_clock, lru_last_set, lru_result>>

engineVars == <<rules_config, internal_window_state, event_count,
                rule_execution_count, last_event, dispatch_log, evaluated, faults,
                dispatch_results, os_calls, event_calls, cleared_at, match_probe,
                count_load>>

worldVars == <<desktop, folder_path_cache, foreground_hwnd>>

auxVars == <<sort_call, cycle_store, cycle_calls, load_call, callerVars, lockVars,
             cycleVars, cacheVars>>

pollVars == <<previous_windows, current_windows, cycle_prev, new_windows,
              closed_windows, changed_windows, delivered, cycle_status>>

vars == <<pollVars, schedVars, engineVars, worldVars, auxVars>>

(***************************************************************************)
(* The differencer, lines 130-139 of event_monitor.py.                     *)
(***************************************************************************)
NewWindows(prev, cur) == (DOMAIN cur) \ (DOMAIN prev)

\* A differencer that forgets to subtract the current handles.
ClosedWindowsNoSubtract(prev, cur) == DOMAIN prev

ClosedWindows(prev, cur) == (DOMAIN prev) \ (DOMAIN cur)

\* A differencer that compares the title against the class name.
ChangedWindowsWrongField(prev, cur) ==
    {h \in (DOMAIN cur) \cap (DOMAIN prev) :
        \/ cur[h].title # prev[h].class_name
        \/ cur[h].class_name # prev[h].class_name}

ChangedWindows(prev, cur) ==
    {h \in (DOMAIN cur) \cap (DOMAIN prev) :
        \/ cur[h].title # prev[h].title
        \/ cur[h].class_name # prev[h].class_name}


(***************************************************************************)
(* Python iterates a set in an order the program does not choose: every    *)
(* order of the handles of S.                                              *)
(***************************************************************************)
Orders(S) ==
    {s \in [1..Cardinality(S) -> S] : \A i, j \in DOMAIN s : i # j => s[i] # s[j]}

\* A loop that leaves after the first handle of the set.
EventsOfFirstOnly(kind, order) ==
    [i \in {j \in DOMAIN order : j = 1} |-> [kind |-> kind, hwnd |-> order[i]]]

\* The event_callback calls of one of the three for loops, lines 142-171.
EventsOf(kind, order) == [i \in DOMAIN order |-> [kind |-> kind, hwnd |-> order[i]]]

(***************************************************************************)
(* One pass of the body of "while self.running" that reaches line 174:     *)
(* cur is what EnumWindows returned.  get_window_info never raises and     *)
(* never returns an empty dict, so every handle of the three sets gets its *)
(* event_callback call.                                                    *)
(***************************************************************************)
PollCycle(cur) ==
    /\ cycle_prev' = previous_windows
    /\ current_windows' = cur
    /\ new_windows' = NewWindows(previous_windows, cur)
    /\ closed_windows' = ClosedWindows(previous_windows, cur)
    /\ changed_windows' = ChangedWindows(previous_windows, cur)
    /\ \E on \in Orders(new_windows'), oc \in Orders(closed_windows'),
          og \in Orders(changed_windows') :
          delivered' = EventsOf("CREATE", on) \o EventsOf("DESTROY", oc)
                         \o EventsOf("NAMECHANGE", og)
    /\ previous_windows' = cur
    /\ cycle_status' = "ok"
    /\ UNCHANGED <<schedVars, engineVars, worldVars, auxVars>>

(***************************************************************************)
(* EnumWindows raises: the handler of line 181 logs, sleeps 5 s and the    *)
(* loop goes on with previous_windows as it was.                           *)
(***************************************************************************)
PollCycleError ==
    /\ cycle_status' = "error"
    /\ delivered' = << >>
    /\ UNCHANGED <<previous_windows, current_windows, cycle_prev, new_windows,
                   closed_windows, changed_windows>>
    /\ UNCHANGED <<schedVars, engineVars, worldVars, auxVars>>

PollInit ==
    /\ previous_windows = EmptySnapshot
    /\ current_windows = EmptySnapshot
    /\ cycle_prev = EmptySnapshot
    /\ new_windows = {}
    /\ closed_windows = {}
    /\ changed_windows = {}
    /\ delivered = << >>
    /\ cycle_status = "none"

PollNext ==
    \/ \E cur \in Snapshots : PollCycle(cur)
    \/ PollCycleError


(***************************************************************************)
(* The scheduler: EventMonitor.start, stop, set_polling_interval and       *)
(* get_polling_interval, called one after the other by one calling thread, *)
(* against the worker threads running _run_message_loop.  Every statement  *)
(* that reads or writes a shared field is a step of its own.  Times are in *)
(* hundredths of a second.                                                 *)
(***************************************************************************)
DefaultInterval == 300      \* self.polling_interval = 3.0
MinInterval == 10           \* 0.1
MaxInterval == 6000         \* 60.0
StartWait == 10             \* time.sleep(0.1) of start
JoinTimeout == 500          \* join(timeout=5.0)
ErrorBackoff == 500         \* time.sleep(5) of the loop's error handler

\* float("nan"), which the settings field of the UI accepts (float() of
\* main_window.py line 585): a float that no comparison holds for.  It
\* stands outside the times of the model.
NaN == -1

\* a < b on Python floats.
FloatLess(a, b) == a # NaN /\ b # NaN /\ a < b

\* The arguments the caller passes to set_polling_interval: 0.01 s, 7 s,
\* 120 s and float("nan").
IntervalInputs == {1, 700, 12000, NaN}

\* The one argument used where the worker's lifecycle is explored: 7 s, a
\* sleep longer than the join timeout (the default 3 s is a shorter one).
LongIntervalInputs == {700}

Workers == 1..MaxWorkers

\* The owner of interval_lock is 0 (free), a worker, or the calling thread.
Caller == MaxWorkers + 1

Alive(w) == wpc[w] \notin {"unborn", "dead"}

\* threading.Thread objects are created in order; the next one to create.
NextWorker == CHOOSE w \in Workers : wpc[w] = "unborn" /\ \A v \in Workers : v < w => wpc[v] # "unborn"

Return(op, ok, arg, timed_out) ==
    /\ cpc' = "idle"
    /\ last_call' = [op |-> op, ok |-> ok, arg |-> arg, timed_out |-> timed_out]

\* Lines 288-293 of set_polling_interval.
Clamp(interval) ==
    IF FloatLess(interval, MinInterval) THEN MinInterval
    ELSE IF FloatLess(MaxInterval, interval) THEN MaxInterval
    ELSE interval

(*------------------------------ start() ---------------------------------*)
\* Line 206: "if self.running: return False".
StartCallIgnoresRunning ==
    /\ cpc = "idle"
    /\ \E w \in Workers : wpc[w] = "unborn"
    /\ cpc' = "s_spawn"
    /\ UNCHANGED <<pollVars, engineVars, worldVars, auxVars, wcycles, running, monitoring_thread, polling_interval, interval_lock,
                   wpc, wtimer, current_interval, ctimer, carg, last_call,
                   stop_in_sleep>>

StartCall ==
    /\ cpc = "idle"
    /\ running \/ \E w \in Workers : wpc[w] = "unborn"
    /\ IF running
         THEN Return("start", FALSE, 0, FALSE)
         ELSE cpc' = "s_spawn" /\ UNCHANGED last_call
    /\ UNCHANGED <<pollVars, engineVars, worldVars, auxVars, wcycles, running, monitoring_thread, polling_interval, interval_lock,
                   wpc, wtimer, current_interval, ctimer, carg, stop_in_sleep>>

\* Lines 212-218: the Thread is created, stored and started.
StartSpawn ==
    /\ cpc = "s_spawn"
    /\ monitoring_thread' = NextWorker
    /\ wpc' = [wpc EXCEPT ![NextWorker] = "init"]
    /\ cpc' = "s_setrun"
    /\ UNCHANGED <<pollVars, engineVars, worldVars, auxVars, wcycles, running, polling_interval, interval_lock, wtimer,
                   current_interval, ctimer, carg, last_call, stop_in_sleep>>

\* Thread.start() raises: the handler of lines 232-235.
StartSpawnFails ==
    /\ cpc = "s_spawn"
    /\ running' = FALSE
    /\ Return("start", FALSE, 0, FALSE)
    /\ UNCHANGED <<pollVars, engineVars, worldVars, auxVars, wcycles, monitoring_thread, polling_interval, interval_lock, wpc,
                   wtimer, current_interval, ctimer, carg, stop_in_sleep>>

\* Lines 219-222: self.running = True, then time.sleep(0.1).
StartSetRunning ==
    /\ cpc = "s_setrun"
    /\ running' = TRUE
    /\ cpc' = "s_wait"
    /\ ctimer' = StartWait
    /\ UNCHANGED <<pollVars, engineVars, worldVars, auxVars, wcycles, monitoring_thread, polling_interval, interval_lock, wpc,
                   wtimer, current_interval, carg, last_call, stop_in_sleep>>

\* Lines 224-230: the is_alive() test after the sleep.
StartCheckAlive ==
    /\ cpc = "s_wait"
    /\ ctimer = 0
    /\ IF Alive(monitoring_thread)
         THEN Return("start", TRUE, 0, FALSE)
         ELSE cpc' = "s_fail" /\ UNCHANGED last_call
    /\ UNCHANGED <<pollVars, engineVars, worldVars, auxVars, wcycles, running, monitoring_thread, polling_interval, interval_lock,
                   wpc, wtimer, current_interval, ctimer, carg, stop_in_sleep>>

\* Lines 229-230.
StartFail ==
    /\ cpc = "s_fail"
    /\ running' = FALSE
    /\ Return("start", FALSE, 0, FALSE)
    /\ UNCHANGED <<pollVars, engineVars, worldVars, auxVars, wcycles, monitoring_thread, polling_interval, interval_lock, wpc,
                   wtimer, current_interval, ctimer, carg, stop_in_sleep>>

(*------------------------------- stop() ---------------------------------*)
\* Line 244: "if not self.running: return False".
StopCall ==
    /\ cpc = "idle"
    /\ IF ~running
         THEN Return("stop", FALSE, 0, FALSE) /\ stop_in_sleep' = FALSE
         ELSE /\ cpc' = "t_clear"
              /\ stop_in_sleep' =
                    (/\ monitoring_thread # 0
                     /\ wpc[monitoring_thread] = "sleep"
                     /\ wtimer[monitoring_thread] > 0)
              /\ UNCHANGED last_call
    /\ UNCHANGED <<pollVars, engineVars, worldVars, auxVars, wcycles, running, monitoring_thread, polling_interval, interval_lock,
                   wpc, wtimer, current_interval, ctimer, carg>>

\* Line 252.
StopClearRunning ==
    /\ cpc = "t_clear"
    /\ running' = FALSE
    /\ cpc' = "t_alive"
    /\ UNCHANGED <<pollVars, engineVars, worldVars, auxVars, wcycles, monitoring_thread, polling_interval, interval_lock, wpc,
                   wtimer, current_interval, ctimer, carg, last_call,
                   stop_in_sleep>>

\* Lines 255-256: join only a thread that exists and is alive.
StopCheckAlive ==
    /\ cpc = "t_alive"
    /\ IF monitoring_thread # 0 /\ Alive(monitoring_thread)
         THEN cpc' = "t_join" /\ ctimer' = JoinTimeout /\ UNCHANGED last_call
         ELSE Return("stop", TRUE, 0, FALSE) /\ UNCHANGED ctimer
    /\ UNCHANGED <<pollVars, engineVars, worldVars, auxVars, wcycles, running, monitoring_thread, polling_interval, interval_lock,
                   wpc, wtimer, current_interval, carg, stop_in_sleep>>

\* join(timeout=5.0) returns: the thread ended, or the timeout ran out.
StopJoinReturns ==
    /\ cpc = "t_join"
    /\ ctimer = 0 \/ ~Alive(monitoring_thread)
    /\ cpc' = "t_recheck"
    /\ ctimer' = 0
    /\ UNCHANGED <<pollVars, engineVars, worldVars, auxVars, wcycles, running, monitoring_thread, polling_interval, interval_lock,
                   wpc, wtimer, current_interval, carg, last_call,
                   stop_in_sleep>>

\* A stop() that rolls the flag back when the join timed out.
StopRecheckRollsBack ==
    /\ cpc = "t_recheck"
    /\ IF Alive(monitoring_thread)
         THEN Return("stop", FALSE, 0, TRUE) /\ running' = TRUE
         ELSE Return("stop", TRUE, 0, FALSE) /\ UNCHANGED running
    /\ UNCHANGED <<pollVars, engineVars, worldVars, auxVars, wcycles, monitoring_thread, polling_interval, interval_lock,
                   wpc, wtimer, current_interval, ctimer, carg, stop_in_sleep>>

\* Lines 258-263.
StopRecheck ==
    /\ cpc = "t_recheck"
    /\ IF Alive(monitoring_thread)
         THEN Return("stop", FALSE, 0, TRUE)
         ELSE Return("stop", TRUE, 0, FALSE)
    /\ UNCHANGED <<pollVars, engineVars, worldVars, auxVars, wcycles, running, monitoring_thread, polling_interval, interval_lock,
                   wpc, wtimer, current_interval, ctimer, carg, stop_in_sleep>>

(*------------------------ set_polling_interval() ------------------------*)
\* Lines 288-293: the argument is clamped before the lock is taken.
SetIntervalCall(interval) ==
    /\ cpc = "idle"
    /\ carg' = Clamp(interval)
    /\ cpc' = "i_lock"
    /\ last_call' = [op |-> "calling", ok |-> FALSE, arg |-> interval,
                     timed_out |-> FALSE]
    /\ UNCHANGED <<pollVars, engineVars, worldVars, auxVars, wcycles, running, monitoring_thread, polling_interval, interval_lock,
                   wpc, wtimer, current_interval, ctimer, stop_in_sleep>>

\* Line 295: "with self.interval_lock" blocks until the lock is free.
SetIntervalAcquire ==
    /\ cpc = "i_lock"
    /\ interval_lock = 0
    /\ interval_lock' = Caller
    /\ cpc' = "i_write"
    /\ UNCHANGED <<pollVars, engineVars, worldVars, auxVars, wcycles, running, monitoring_thread, polling_interval, wpc, wtimer,
                   current_interval, ctimer, carg, last_call, stop_in_sleep>>

\* Lines 296-297.
SetIntervalWrite ==
    /\ cpc = "i_write"
    /\ polling_interval' = carg
    /\ cpc' = "i_unlock"
    /\ UNCHANGED <<pollVars, engineVars, worldVars, auxVars, wcycles, running, monitoring_thread, interval_lock, wpc, wtimer,
                   current_interval, ctimer, carg, last_call, stop_in_sleep>>

\* The end of the with block, and "return True" of line 300.
SetIntervalRelease ==
    /\ cpc = "i_unlock"
    /\ interval_lock' = IF interval_lock = Caller THEN 0 ELSE interval_lock
    /\ Return("set_interval", TRUE, last_call.arg, FALSE)
    /\ UNCHANGED <<pollVars, engineVars, worldVars, auxVars, wcycles, running, monitoring_thread, polling_interval, wpc, wtimer,
                   current_interval, ctimer, carg, stop_in_sleep>>

(*------------------------ get_polling_interval() ------------------------*)
\* Lines 309-310, also reached through get_status.
GetIntervalCall ==
    /\ cpc = "idle"
    /\ cpc' = "g_lock"
    /\ UNCHANGED <<pollVars, engineVars, worldVars, auxVars, wcycles, running, monitoring_thread, polling_interval, interval_lock,
                   wpc, wtimer, current_interval, ctimer, carg, last_call,
                   stop_in_sleep>>

GetIntervalAcquire ==
    /\ cpc = "g_lock"
    /\ interval_lock = 0
    /\ interval_lock' = Caller
    /\ cpc' = "g_read"
    /\ UNCHANGED <<pollVars, engineVars, worldVars, auxVars, wcycles, running, monitoring_thread, polling_interval, wpc, wtimer,
                   current_interval, ctimer, carg, last_call, stop_in_sleep>>

GetIntervalRead ==
    /\ cpc = "g_read"
    /\ interval_lock' = 0
    /\ Return("get_interval", TRUE, polling_interval, FALSE)
    /\ UNCHANGED <<pollVars, engineVars, worldVars, auxVars, wcycles, running, monitoring_thread, polling_interval, wpc, wtimer,
                   current_interval, ctimer, carg, stop_in_sleep>>

(*------------------- _run_message_loop, per worker ----------------------*)
\* Lines 90-99: CoInitialize and the thread id, before the loop.
WorkerInit(w) ==
    /\ wpc[w] = "init"
    /\ wpc' = [wpc EXCEPT ![w] = "check"]
    /\ UNCHANGED <<pollVars, engineVars, worldVars, auxVars, wcycles, running, monitoring_thread, polling_interval, interval_lock,
                   wtimer, current_interval, cpc, ctimer, carg, last_call,
                   stop_in_sleep>>

\* CoInitialize raises: the handler of line 185, then the finally block.
WorkerInitFails(w) ==
    /\ wpc[w] = "init"
    /\ wpc' = [wpc EXCEPT ![w] = "cleanup"]
    /\ UNCHANGED <<pollVars, engineVars, worldVars, auxVars, wcycles, running, monitoring_thread, polling_interval, interval_lock,
                   wtimer, current_interval, cpc, ctimer, carg, last_call,
                   stop_in_sleep>>

\* Line 105: "while self.running".
WorkerCheck(w) ==
    /\ wpc[w] = "check"
    /\ wpc' = [wpc EXCEPT ![w] = IF running THEN "cycle" ELSE "cleanup"]
    /\ wcycles' = IF running /\ wcycles < MaxCycles THEN wcycles + 1 ELSE wcycles
    /\ UNCHANGED <<pollVars, engineVars, worldVars, auxVars, running, monitoring_thread, polling_interval, interval_lock,
                   wtimer, current_interval, cpc, ctimer, carg, last_call,
                   stop_in_sleep>>

\* Lines 107-174: snapshot, diff and event delivery (SpecPoll has the
\* detail); the cycle takes time, it may be in progress while others run.
WorkerCycle(w) ==
    /\ wpc[w] = "cycle"
    /\ wpc' = [wpc EXCEPT ![w] = "lock"]
    /\ UNCHANGED <<pollVars, engineVars, worldVars, auxVars, wcycles, running, monitoring_thread, polling_interval, interval_lock,
                   wtimer, current_interval, cpc, ctimer, carg, last_call,
                   stop_in_sleep>>

\* A loop without the handler of lines 181-183: an error ends the thread.
WorkerCycleErrorEnds(w) ==
    /\ wpc[w] = "cycle"
    /\ wpc' = [wpc EXCEPT ![w] = "cleanup"]
    /\ UNCHANGED <<pollVars, engineVars, worldVars, auxVars, wcycles, running, monitoring_thread, polling_interval, interval_lock,
                   wtimer, current_interval, cpc, ctimer, carg, last_call,
                   stop_in_sleep>>

\* Lines 181-183: the cycle raised; log and sleep 5 s.
WorkerCycleError(w) ==
    /\ wpc[w] = "cycle"
    /\ wpc' = [wpc EXCEPT ![w] = "backoff"]
    /\ wtimer' = [wtimer EXCEPT ![w] = ErrorBackoff]
    /\ UNCHANGED <<pollVars, engineVars, worldVars, auxVars, wcycles, running, monitoring_thread, polling_interval, interval_lock,
                   current_interval, cpc, ctimer, carg, last_call,
                   stop_in_sleep>>

\* Line 177: "with self.interval_lock".
WorkerAcquire(w) ==
    /\ wpc[w] = "lock"
    /\ interval_lock = 0
    /\ interval_lock' = w
    /\ wpc' = [wpc EXCEPT ![w] = "read"]
    /\ UNCHANGED <<pollVars, engineVars, worldVars, auxVars, wcycles, running, monitoring_thread, polling_interval, wtimer,
                   current_interval, cpc, ctimer, carg, last_call,
                   stop_in_sleep>>

\* Line 178.
WorkerRead(w) ==
    /\ wpc[w] = "read"
    /\ current_interval' = [current_interval EXCEPT ![w] = polling_interval]
    /\ wpc' = [wpc EXCEPT ![w] = "unlock"]
    /\ UNCHANGED <<pollVars, engineVars, worldVars, auxVars, wcycles, running, monitoring_thread, polling_interval, interval_lock,
                   wtimer, cpc, ctimer, carg, last_call, stop_in_sleep>>

\* The end of the with block and line 179: time.sleep(current_interval).
\* time.sleep raises ValueError for NaN: lines 181-183 log it and sleep 5 s.
WorkerSleep(w) ==
    /\ wpc[w] = "unlock"
    /\ interval_lock' = 0
    /\ wpc' = [wpc EXCEPT ![w] =
                  IF current_interval[w] = NaN THEN "backoff" ELSE "sleep"]
    /\ wtimer' = [wtimer EXCEPT ![w] =
                  IF current_interval[w] = NaN THEN ErrorBackoff
                  ELSE current_interval[w]]
    /\ current_interval' = [current_interval EXCEPT ![w] = 0]
    /\ UNCHANGED <<pollVars, engineVars, worldVars, auxVars, wcycles, running, monitoring_thread, polling_interval,
                   cpc, ctimer, carg, last_call,
                   stop_in_sleep>>

\* time.sleep returns; back to the loop test.
WorkerWake(w) ==
    /\ wpc[w] \in {"sleep", "backoff"}
    /\ wtimer[w] = 0
    /\ wpc' = [wpc EXCEPT ![w] = "check"]
    /\ UNCHANGED <<pollVars, engineVars, worldVars, auxVars, wcycles, running, monitoring_thread, polling_interval, interval_lock,
                   wtimer, current_interval, cpc, ctimer, carg, last_call,
                   stop_in_sleep>>

\* Lines 187-197: CoUninitialize, self.running = False, and the thread ends.
WorkerExit(w) ==
    /\ wpc[w] = "cleanup"
    /\ running' = FALSE
    /\ wpc' = [wpc EXCEPT ![w] = "dead"]
    /\ UNCHANGED <<pollVars, engineVars, worldVars, auxVars, wcycles, monitoring_thread, polling_interval, interval_lock, wtimer,
                   current_interval, cpc, ctimer, carg, last_call,
                   stop_in_sleep>>

(*------------------------------- time -----------------------------------*)
\* A thread that can take a step now.  Steps take no time next to the
\* sleeps, except the poll cycle, which calls the OS and may take long.
WorkerBusy(w) ==
    \/ wpc[w] \in {"init", "read", "unlock", "cleanup"}
    \/ wpc[w] = "check"
    \/ wpc[w] = "lock" /\ interval_lock = 0
    \/ wpc[w] \in {"sleep", "backoff"} /\ wtimer[w] = 0

CallerBusy ==
    \/ cpc \in {"s_spawn", "s_setrun", "s_fail", "t_clear", "t_alive",
                "t_recheck", "i_write", "i_unlock", "g_read"}
    \/ cpc \in {"i_lock", "g_lock"} /\ interval_lock = 0
    \/ cpc = "s_wait" /\ ctimer = 0
    \/ cpc = "t_join" /\ (ctimer = 0 \/ ~Alive(monitoring_thread))

SleepingWorkers == {w \in Workers : wpc[w] \in {"sleep", "backoff"} /\ wtimer[w] > 0}

ActiveTimers ==
    {wtimer[w] : w \in SleepingWorkers}
        \cup (IF cpc \in {"s_wait", "t_join"} /\ ctimer > 0 THEN {ctimer} ELSE {})

Min(S) == CHOOSE m \in S : \A n \in S : m <= n

\* Time passes until the first sleep or join timeout runs out.
Tick ==
    /\ ~CallerBusy
    /\ \A w \in Workers : ~WorkerBusy(w)
    /\ ActiveTimers # {}
    /\ LET d == Min(ActiveTimers) IN
        /\ wtimer' = [w \in Workers |->
                        IF w \in SleepingWorkers THEN wtimer[w] - d ELSE wtimer[w]]
        /\ ctimer' = IF cpc \in {"s_wait", "t_join"} /\ ctimer > 0
                       THEN ctimer - d ELSE ctimer
    /\ UNCHANGED <<pollVars, engineVars, worldVars, auxVars, wcycles, running, monitoring_thread, polling_interval, interval_lock,
                   wpc, current_interval, cpc, carg, last_call, stop_in_sleep>>

SchedInit ==
    /\ running = FALSE
    /\ monitoring_thread = 0
    /\ polling_interval = DefaultInterval
    /\ interval_lock = 0
    /\ wpc = [w \in Workers |-> "unborn"]
    /\ wtimer = [w \in Workers |-> 0]
    /\ current_interval = [w \in Workers |-> 0]
    /\ wcycles = 0
    /\ cpc = "idle"
    /\ ctimer = 0
    /\ carg = 0
    /\ last_call = [op |-> "none", ok |-> FALSE, arg |-> 0, timed_out |-> FALSE]
    /\ stop_in_sleep = FALSE

\* start, stop and set_polling_interval against the workers.
SchedNext ==
    \/ StartCall \/ StartSpawn \/ StartSpawnFails \/ StartSetRunning
    \/ StartCheckAlive \/ StartFail
    \/ StopCall \/ StopClearRunning \/ StopCheckAlive \/ StopJoinReturns
    \/ StopRecheck
    \/ \E i \in LongIntervalInputs : SetIntervalCall(i)
    \/ SetIntervalAcquire \/ SetIntervalWrite \/ SetIntervalRelease
    \/ \E w \in Workers :
        \/ WorkerInit(w) \/ WorkerInitFails(w) \/ WorkerCheck(w)
        \/ WorkerCycle(w) \/ WorkerCycleError(w) \/ WorkerAcquire(w)
        \/ WorkerRead(w) \/ WorkerSleep(w) \/ WorkerWake(w) \/ WorkerExit(w)
    \/ Tick

\* set_polling_interval and get_polling_interval, with every argument,
\* against the workers of a started monitor.
IntervalNext ==
    \/ StartCall \/ StartSpawn \/ StartSetRunning \/ StartCheckAlive
    \/ StartFail
    \/ \E i \in IntervalInputs : SetIntervalCall(i)
    \/ SetIntervalAcquire \/ SetIntervalWrite \/ SetIntervalRelease
    \/ GetIntervalCall \/ GetIntervalAcquire \/ GetIntervalRead
    \/ \E w \in Workers :
        \/ WorkerInit(w) \/ WorkerCheck(w) \/ WorkerCycle(w)
        \/ WorkerCycleError(w) \/ WorkerAcquire(w) \/ WorkerRead(w)
        \/ WorkerSleep(w) \/ WorkerWake(w) \/ WorkerExit(w)
    \/ Tick

(***************************************************************************)
(* The rule engine: RuleEngine.process_event with the helpers it calls.    *)
(* A window info is the dict of get_window_info, without the pid and the   *)
(* window_state, which the engine never reads.  None is Python's None.     *)
(***************************************************************************)
None == "None"

RuleNames == {"r1", "r2", "r3"}

ActionTypes ==
    {"MINIMIZE_OTHERS_OF_SAME_APP", "CLOSE_DUPLICATE_PATH", "BRING_TO_FOREGROUND",
     "CLOSE_WINDOW", "HIDE_WINDOW"}

\* What get_window_info returns for an open window of class cls.
FullInfo(h, cls) ==
    [hwnd |-> h, title |-> "a", class_name |-> cls, exe_path |-> "C:\\Apps\\App.EXE",
     is_visible |-> TRUE, is_top_level |-> TRUE]

\* A minimal info that keeps the executable path of the closed window.
ClosedInfoWithPath(h, cls) ==
    [hwnd |-> h, title |-> "a", class_name |-> cls, pid |-> None,
     exe_path |-> "C:\\Apps\\App.EXE", is_visible |-> FALSE, is_top_level |-> FALSE]

\* The minimal info the poll loop builds for a closed window (lines 153-162).
ClosedInfo(h, cls) ==
    [hwnd |-> h, title |-> "a", class_name |-> cls, pid |-> None,
     exe_path |-> None, is_visible |-> FALSE, is_top_level |-> FALSE]

WindowClasses == {"x", "y"}

Stores == UNION {[hs -> WindowClasses] : hs \in SUBSET Handles}

\* The windows open when the engine is built are of class "x".
InitialStores == UNION {[hs -> {"x"}] : hs \in SUBSET Handles}

StoreOf(classes) == [h \in DOMAIN classes |-> FullInfo(h, classes[h])]

\* self.event_type_mapping.get(event_id, f"UNKNOWN_{event_id}"), lines 34-41, 77.
EventTypeMapping(event_id) ==
    CASE event_id = "EVENT_OBJECT_CREATE" -> "CREATE"
      [] event_id = "EVENT_OBJECT_DESTROY" -> "DESTROY"
      [] event_id = "EVENT_OBJECT_SHOW" -> "SHOW"
      [] event_id = "EVENT_OBJECT_HIDE" -> "HIDE"
      [] event_id = "EVENT_SYSTEM_FOREGROUND" -> "FOREGROUND"
      [] event_id = "EVENT_OBJECT_NAMECHANGE" -> "NAMECHANGE"
      [] OTHER -> "UNKNOWN"

\* dict.get(key, default)
Get(d, key, default) == IF key \in DOMAIN d THEN d[key] ELSE default

\* dict.update: the keys of new override those of old.
DictUpdate(old, new) ==
    [k \in (DOMAIN old) \cup (DOMAIN new) |-> IF k \in DOMAIN new THEN new[k] ELSE old[k]]

\* An update that replaces the entry on NAMECHANGE, as CREATE does.
UpdateWindowStateReplace(state, event_type, hwnd, window_info) ==
    IF event_type \in {"CREATE", "SHOW"}
      THEN [h \in (DOMAIN state) \cup {hwnd} |->
               IF h = hwnd THEN window_info ELSE state[h]]
    ELSE IF event_type \in {"DESTROY", "HIDE"}
      THEN [h \in (DOMAIN state) \ {hwnd} |-> state[h]]
    ELSE IF event_type = "NAMECHANGE" /\ hwnd \in DOMAIN state
      THEN [state EXCEPT ![hwnd] = window_info]
    ELSE state

\* _update_window_state, lines 112-137.
UpdateWindowState(state, event_type, hwnd, window_info) ==
    IF event_type \in {"CREATE", "SHOW"}
      THEN [h \in (DOMAIN state) \cup {hwnd} |->
               IF h = hwnd THEN window_info ELSE state[h]]
    ELSE IF event_type \in {"DESTROY", "HIDE"}
      THEN [h \in (DOMAIN state) \ {hwnd} |-> state[h]]
    ELSE IF event_type = "NAMECHANGE" /\ hwnd \in DOMAIN state
      THEN [state EXCEPT ![hwnd] = DictUpdate(state[hwnd], window_info)]
    ELSE state

\* get_enabled_rules, config.py lines 267-277.
GetEnabledRules(rules) == SelectSeq(rules, LAMBDA r : r.enabled)

\* rule.get('priority', 0)
Priority(rule) == IF "priority" \in DOMAIN rule THEN rule.priority ELSE 0

\* An insertion that puts a rule in front of the placed rules of its priority.
InsertByPriorityUnstable(sorted, rule) ==
    LET before == {i \in 1..Len(sorted) : Priority(sorted[i]) > Priority(rule)}
        k == Cardinality(before)
    IN  SubSeq(sorted, 1, k) \o <<rule>> \o SubSeq(sorted, k + 1, Len(sorted))

\* sorted(rules, key=priority, reverse=True) is stable: a rule goes behind
\* every rule already placed whose priority is not lower.
InsertByPriority(sorted, rule) ==
    LET before == {i \in 1..Len(sorted) : Priority(sorted[i]) >= Priority(rule)}
        k == Cardinality(before)
    IN  SubSeq(sorted, 1, k) \o <<rule>> \o SubSeq(sorted, k + 1, Len(sorted))

RECURSIVE SortPrefix(_, _)
SortPrefix(rules, n) ==
    IF n = 0 THEN << >> ELSE InsertByPriority(SortPrefix(rules, n - 1), rules[n])

\* sort_rules_by_priority, config.py lines 280-290.
SortRulesByPriority(rules) == SortPrefix(rules, Len(rules))

\* A rule whose 'priority' is a text and not a number carries it in the
\* field priority_text.  sorted() has to compare the key of such a rule
\* with a number as soon as the list holds both, and raises TypeError.
SortRaises(rules) ==
    \E i, j \in 1..Len(rules) :
        /\ "priority_text" \in DOMAIN rules[i]
        /\ "priority_text" \notin DOMAIN rules[j]

\* os.path.basename(path).lower() for the paths of this model.
BaseNameLower(path) ==
    CASE path = "C:\\Apps\\App.EXE" -> "app.exe"
      [] path = "C:\\Windows\\explorer.exe" -> "explorer.exe"
      [] path = "C:\\Tools\\Notepad.exe" -> "notepad.exe"
      [] path = "D:\\Bin\\app.exe" -> "app.exe"
      [] OTHER -> path

\* str.lower() for the executable names of this model.
Lower(name) ==
    CASE name = "App.exe" -> "app.exe"
      [] OTHER -> name

\* The characters of the titles and of the title patterns of this model.
Chars(text) ==
    CASE text = "" -> << >>
      [] text = "a" -> <<"a">>
      [] text = "b" -> <<"b">>
      [] text = "z" -> <<"z">>
      [] text = "ab" -> <<"a", "b">>
      [] text = "ba" -> <<"b", "a">>
      [] text = "^b" -> <<"^", "b">>
      [] text = "(" -> <<"(">>

\* The literal is in the title from position k on.
LiteralAt(literal, title, k) ==
    /\ k + Len(literal) - 1 <= Len(title)
    /\ \A i \in 1..Len(literal) : title[k + i - 1] = literal[i]

\* re.match on the characters: the pattern is tried at the start only.
ReMatchChars(pattern, title) ==
    IF \E i \in 1..Len(pattern) : pattern[i] = "(" THEN "raise"
    ELSE IF pattern # << >> /\ pattern[1] = "^"
      THEN IF LiteralAt(Tail(pattern), title, 1) THEN "found" ELSE "none"
    ELSE IF LiteralAt(pattern, title, 1) THEN "found" ELSE "none"

\* re.search of line 182 for patterns that are a literal, a literal
\* after "^", or an unbalanced parenthesis, which re.compile rejects with
\* re.error.
ReSearchChars(pattern, title) ==
    IF \E i \in 1..Len(pattern) : pattern[i] = "(" THEN "raise"
    ELSE IF pattern # << >> /\ pattern[1] = "^"
      THEN IF LiteralAt(Tail(pattern), title, 1) THEN "found" ELSE "none"
    ELSE IF \E k \in 1..(Len(title) + 1) : LiteralAt(pattern, title, k)
      THEN "found" ELSE "none"

ReSearch(pattern, title) == ReSearchChars(Chars(pattern), Chars(title))

\* A match that also wants the window to be in the store already.
MatchRuleConditionReadsStore(rule, event_type, window_info, raises) ==
    IF raises THEN FALSE
    ELSE LET trigger == rule.trigger IN
        /\ trigger.event_type = event_type
        /\ window_info.hwnd \in DOMAIN internal_window_state
        /\ "executable_name" \in DOMAIN trigger =>
              /\ Get(window_info, "exe_path", None) # None
              /\ BaseNameLower(window_info.exe_path) = Lower(trigger.executable_name)
        /\ "window_class" \in DOMAIN trigger =>
              Get(window_info, "class_name", "") = trigger.window_class
        /\ "title_pattern" \in DOMAIN trigger =>
              ReSearch(trigger.title_pattern, Get(window_info, "title", "")) = "found"

\* _match_rule_condition, lines 139-189; raises is an error raised inside
\* the try block, which the handler of line 187 turns into False, as it
\* does with the re.error of an invalid title pattern.
MatchRuleCondition(rule, event_type, window_info, raises) ==
    IF raises THEN FALSE
    ELSE LET trigger == rule.trigger IN
        /\ trigger.event_type = event_type
        /\ "executable_name" \in DOMAIN trigger =>
              /\ Get(window_info, "exe_path", None) # None
              /\ BaseNameLower(window_info.exe_path) = Lower(trigger.executable_name)
        /\ "window_class" \in DOMAIN trigger =>
              Get(window_info, "class_name", "") = trigger.window_class
        /\ "title_pattern" \in DOMAIN trigger =>
              ReSearch(trigger.title_pattern, Get(window_info, "title", "")) = "found"

\* action.get(key, False)
Flag(action, key) == IF key \in DOMAIN action THEN action[key] ELSE FALSE

\* _window_matches_filter, lines 224-257.
\* A filter that does not look at the top-level requirement.
WindowMatchesFilterVisibleOnly(window_info, action) ==
    Flag(action, "is_visible") => Get(window_info, "is_visible", FALSE)

\* _window_matches_filter, lines 224-257.
WindowMatchesFilter(window_info, action) ==
    /\ Flag(action, "is_visible") => Get(window_info, "is_visible", FALSE)
    /\ Flag(action, "is_top_level") => Get(window_info, "is_top_level", FALSE)

\* A filter that leaves the triggering window out whatever the rule says.
FilterTargetWindowsNoTrigger(rule, new_window_info, state, raises) ==
    IF raises THEN {}
    ELSE {h \in DOMAIN state :
            /\ h # new_window_info.hwnd
            /\ WindowMatchesFilter(state[h], rule.action)}

\* _filter_target_windows, lines 191-222: the handles of the target list;
\* an error raised inside is turned into the empty list by line 220.
FilterTargetWindows(rule, new_window_info, state, raises) ==
    IF raises THEN {}
    ELSE {h \in DOMAIN state :
            /\ ~(Flag(rule.action, "exclude_trigger_window") /\ h = new_window_info.hwnd)
            /\ WindowMatchesFilter(state[h], rule.action)}

\* The elements of a set of handles, in ascending order.
RECURSIVE Ascending(_)
Ascending(hs) ==
    IF hs = {} THEN << >>
    ELSE LET m == CHOOSE h \in hs : \A g \in hs : h <= g
         IN  <<m>> \o Ascending(hs \ {m})

\* The handles for which the window_manager primitive returns a false
\* value under the fault: all of them, the window 1 only, or none.
FailedHandles(fault) ==
    IF fault = "dispatch_fails" THEN Handles
    ELSE IF fault = "fails_on_1" THEN {1}
    ELSE {}

\* One call of the OS primitive op per handle of hs.  The code walks the
\* target list in the order of the store dict; no property of this model
\* rests on the order of the calls of one helper loop.
CallsOn(op, hs) ==
    LET order == Ascending(hs)
    IN  [i \in 1..Len(order) |-> [op |-> op, hwnd |-> order[i]]]

\* The uncached body of get_explorer_folder_path, win32_helpers.py lines
\* 126-174: the folder an open explorer window shows, else None.
ExplorerFolderPath(hwnd, windows) ==
    IF hwnd \in DOMAIN windows /\ windows[hwnd].class_name = "CabinetWClass"
      THEN windows[hwnd].folder
      ELSE None

\* cached_folder_path, cache.py lines 182-199: the path the call returns.
CachedFolderPath(hwnd, cached, windows) ==
    IF hwnd \in DOMAIN cached THEN cached[hwnd]
    ELSE ExplorerFolderPath(hwnd, windows)

\* cached_folder_path: the cache after the calls for the handles of hs.
CacheAfter(hs, cached, windows) ==
    LET fresh == {h \in hs \ DOMAIN cached : ExplorerFolderPath(h, windows) # None}
    IN  [h \in (DOMAIN cached) \cup fresh |->
            IF h \in DOMAIN cached THEN cached[h]
            ELSE ExplorerFolderPath(h, windows)]

\* str.lower() for the folder paths of this model.
PathLower(path) ==
    CASE path = "C:\\Docs" -> "c:\\docs"
      [] path = "c:\\docs" -> "c:\\docs"
      [] OTHER -> path

\* enum_explorer_windows_with_paths, win32_helpers.py lines 257-276: the
\* open explorer windows for which the cached lookup returns a path.
EnumExplorerWindowsWithPaths(cached, windows) ==
    {h \in DOMAIN windows :
        /\ windows[h].class_name = "CabinetWClass"
        /\ CachedFolderPath(h, cached, windows) # None}

\* A dispatcher that reports success when it did nothing.
NoActionReportsSuccess(world) ==
    [status |-> "ok", calls |-> << >>, cache |-> world.cache, fg |-> world.fg]

\* What a helper returns when it stops before its first OS call.
NoAction(world) ==
    [status |-> "fail", calls |-> << >>, cache |-> world.cache, fg |-> world.fg]

\* A helper without the "continue" of line 81 for the triggering window.
MinimizeAllOfSameApp(target_windows, new_window_info, fault, world) ==
    IF Get(new_window_info, "exe_path", None) = None THEN NoAction(world)
    ELSE LET others ==
               {h \in DOMAIN target_windows :
                  /\ "hwnd" \in DOMAIN target_windows[h]
                  /\ Get(target_windows[h], "exe_path", None) # None
                  /\ BaseNameLower(target_windows[h].exe_path)
                        = BaseNameLower(new_window_info.exe_path)
                  /\ Get(target_windows[h], "is_visible", FALSE)
                  /\ Get(target_windows[h], "is_top_level", FALSE)}
         IN  [status |-> IF others \ FailedHandles(fault) # {}
                           THEN "ok" ELSE "fail",
              calls |-> CallsOn("minimize_window", others),
              cache |-> world.cache, fg |-> world.fg]

\* _minimize_others_of_same_app, actions.py lines 48-103.
MinimizeOthersOfSameApp(target_windows, new_window_info, fault, world) ==
    IF Get(new_window_info, "exe_path", None) = None THEN NoAction(world)
    ELSE LET others ==
               {h \in DOMAIN target_windows :
                  /\ Get(target_windows[h], "hwnd", None) # Get(new_window_info, "hwnd", None)
                  /\ Get(target_windows[h], "exe_path", None) # None
                  /\ BaseNameLower(target_windows[h].exe_path)
                        = BaseNameLower(new_window_info.exe_path)
                  /\ Get(target_windows[h], "is_visible", FALSE)
                  /\ Get(target_windows[h], "is_top_level", FALSE)}
         IN  [status |-> IF others \ FailedHandles(fault) # {}
                           THEN "ok" ELSE "fail",
              calls |-> CallsOn("minimize_window", others),
              cache |-> world.cache, fg |-> world.fg]

\* _close_duplicate_path, actions.py lines 106-157.
CloseDuplicatePath(target_windows, new_window_info, fault, world) ==
    LET new_window_hwnd == Get(new_window_info, "hwnd", None)
        new_window_path == CachedFolderPath(new_window_hwnd, world.cache,
                                            world.desktop)
        cache1 == CacheAfter({new_window_hwnd}, world.cache, world.desktop)
        explorer_windows == EnumExplorerWindowsWithPaths(cache1, world.desktop)
        cache2 == CacheAfter({h \in DOMAIN world.desktop :
                                 world.desktop[h].class_name = "CabinetWClass"},
                             cache1, world.desktop)
        duplicates == {h \in explorer_windows :
                          PathLower(CachedFolderPath(h, cache1, world.desktop))
                              = PathLower(new_window_path)}
        keep_hwnd == IF new_window_hwnd \in duplicates THEN new_window_hwnd
                     ELSE world.fg
        closed == duplicates \ {keep_hwnd}
    IN  IF Get(new_window_info, "class_name", "") # "CabinetWClass"
          THEN NoAction(world)
        ELSE IF new_window_path = None THEN NoAction(world)
        ELSE IF Cardinality(duplicates) <= 1
          THEN [NoAction(world) EXCEPT !.cache = cache2]
        ELSE [status |-> IF closed \ FailedHandles(fault) # {}
                           THEN "ok" ELSE "fail",
              calls |-> CallsOn("close_window", closed)
                            \o <<[op |-> "bring_to_foreground", hwnd |-> keep_hwnd]>>,
              cache |-> cache2,
              fg |-> IF keep_hwnd \in FailedHandles(fault) THEN world.fg
                     ELSE keep_hwnd]

\* A helper loop that leaves at the first call that returns a false value.
ActOnTargetsStopsAtFailure(op, target_windows, fault, world) ==
    [status |-> IF (DOMAIN target_windows) \ FailedHandles(fault) # {}
                  THEN "ok" ELSE "fail",
     calls |-> CallsOn(op, {h \in DOMAIN target_windows :
                              \A g \in (DOMAIN target_windows) \cap FailedHandles(fault) :
                                 h <= g}),
     cache |-> world.cache,
     fg |-> world.fg]

\* _bring_to_foreground, _close_windows and _hide_windows, actions.py lines
\* 160-246: one call of the primitive op per target, the calls that return
\* a true value are counted.
ActOnTargets(op, target_windows, fault, world) ==
    [status |-> IF (DOMAIN target_windows) \ FailedHandles(fault) # {}
                  THEN "ok" ELSE "fail",
     calls |-> CallsOn(op, DOMAIN target_windows),
     cache |-> world.cache,
     fg |-> IF op = "bring_to_foreground"
               /\ (DOMAIN target_windows) \ FailedHandles(fault) # {}
              THEN Ascending((DOMAIN target_windows) \ FailedHandles(fault))
                     [Cardinality((DOMAIN target_windows) \ FailedHandles(fault))]
              ELSE world.fg]

\* A dispatcher without its own handler: the error reaches process_event.
PerformActionUncaught(action_type, target_windows, new_window_info, fault, world) ==
    IF action_type \notin ActionTypes THEN NoAction(world)
    ELSE IF fault = "dispatch_raises" THEN [NoAction(world) EXCEPT !.status = "raise"]
    ELSE IF action_type = "MINIMIZE_OTHERS_OF_SAME_APP"
      THEN MinimizeOthersOfSameApp(target_windows, new_window_info, fault, world)
    ELSE IF action_type = "CLOSE_DUPLICATE_PATH"
      THEN CloseDuplicatePath(target_windows, new_window_info, fault, world)
    ELSE IF action_type = "BRING_TO_FOREGROUND"
      THEN ActOnTargets("bring_to_foreground", target_windows, fault, world)
    ELSE IF action_type = "CLOSE_WINDOW"
      THEN ActOnTargets("close_window", target_windows, fault, world)
    ELSE ActOnTargets("hide_window", target_windows, fault, world)

\* perform_action, actions.py lines 13-45: status "ok" for True, "fail" for
\* False, with the OS calls made, the folder-path cache and the foreground
\* window it leaves.  A fault is what the OS does to the helper of a known
\* action type: its calls return a false value ("dispatch_fails"), or an
\* error is raised before the first call ("dispatch_raises"), which line 43
\* turns into False.
PerformAction(action_type, target_windows, new_window_info, fault, world) ==
    IF action_type \notin ActionTypes THEN NoAction(world)
    ELSE IF fault = "dispatch_raises" THEN NoAction(world)
    ELSE IF action_type = "MINIMIZE_OTHERS_OF_SAME_APP"
      THEN MinimizeOthersOfSameApp(target_windows, new_window_info, fault, world)
    ELSE IF action_type = "CLOSE_DUPLICATE_PATH"
      THEN CloseDuplicatePath(target_windows, new_window_info, fault, world)
    ELSE IF action_type = "BRING_TO_FOREGROUND"
      THEN ActOnTargets("bring_to_foreground", target_windows, fault, world)
    ELSE IF action_type = "CLOSE_WINDOW"
      THEN ActOnTargets("close_window", target_windows, fault, world)
    ELSE ActOnTargets("hide_window", target_windows, fault, world)

\* self._rule_execution_count[name] += 1 on a defaultdict(int).
Increment(counts, name) ==
    [n \in (DOMAIN counts) \cup {name} |->
        IF n = name THEN (IF n \in DOMAIN counts THEN counts[n] + 1 ELSE 1)
        ELSE counts[n]]

\* What one rule of the loop of lines 89-107 does: status "skip" when it
\* did not match or found no target, else what perform_action returned.
RuleOutcome(rule, ev, state, fault, world) ==
    IF ~MatchRuleCondition(rule, ev.event_type, ev.window_info, fault = "match_raises")
      THEN [NoAction(world) EXCEPT !.status = "skip"]
    ELSE LET targets == FilterTargetWindows(rule, ev.window_info, state,
                                            fault = "filter_raises") IN
         IF targets = {} THEN [NoAction(world) EXCEPT !.status = "skip"]
         ELSE PerformAction(rule.action.type, [h \in targets |-> state[h]],
                            ev.window_info, fault, world)

\* A loop that counts every dispatch, the failed ones too.
AfterRuleCountsDispatch(acc, rule, outcome) ==
    [evaluated |-> Append(acc.evaluated, rule.name),
     log |-> IF outcome.status = "skip" THEN acc.log ELSE Append(acc.log, rule.name),
     counts |-> IF outcome.status # "skip" THEN Increment(acc.counts, rule.name)
                ELSE acc.counts,
     results |-> IF outcome.status = "skip" THEN acc.results
                 ELSE Append(acc.results, outcome.status),
     calls |-> acc.calls \o [k \in 1..Len(outcome.calls) |->
                                [rule |-> rule.name, op |-> outcome.calls[k].op,
                                 hwnd |-> outcome.calls[k].hwnd]],
     world |-> [acc.world EXCEPT !.cache = outcome.cache, !.fg = outcome.fg]]

\* What the loop has done after the rule whose outcome is given.
AfterRule(acc, rule, outcome) ==
    [evaluated |-> Append(acc.evaluated, rule.name),
     log |-> IF outcome.status = "skip" THEN acc.log ELSE Append(acc.log, rule.name),
     counts |-> IF outcome.status = "ok" THEN Increment(acc.counts, rule.name)
                ELSE acc.counts,
     results |-> IF outcome.status = "skip" THEN acc.results
                 ELSE Append(acc.results, outcome.status),
     calls |-> acc.calls \o [k \in 1..Len(outcome.calls) |->
                                [rule |-> rule.name, op |-> outcome.calls[k].op,
                                 hwnd |-> outcome.calls[k].hwnd]],
     world |-> [acc.world EXCEPT !.cache = outcome.cache, !.fg = outcome.fg]]

\* A loop that stops at the first rule that was dispatched.
RECURSIVE EvaluateRulesFirstMatch(_, _, _, _, _, _)
FirstMatchAfter(sorted, i, ev, state, fault_of, acc, outcome) ==
    IF outcome.status # "skip" THEN AfterRule(acc, sorted[i], outcome)
    ELSE EvaluateRulesFirstMatch(sorted, i + 1, ev, state, fault_of,
                                 AfterRule(acc, sorted[i], outcome))

EvaluateRulesFirstMatch(sorted, i, ev, state, fault_of, acc) ==
    IF i > Len(sorted) THEN acc
    ELSE FirstMatchAfter(sorted, i, ev, state, fault_of, acc,
                         RuleOutcome(sorted[i], ev, state,
                                     fault_of[sorted[i].name], acc.world))

\* The for loop of lines 89-107 from rule i on.  An error that reaches the
\* loop body ("raise") leaves the loop for the handler of line 109.
RECURSIVE EvaluateRules(_, _, _, _, _, _)
\* The rest of the loop once rule i has had its outcome.
EvaluateRulesAfter(sorted, i, ev, state, fault_of, acc, outcome) ==
    IF outcome.status = "raise" THEN AfterRule(acc, sorted[i], outcome)
    ELSE EvaluateRules(sorted, i + 1, ev, state, fault_of,
                       AfterRule(acc, sorted[i], outcome))

EvaluateRules(sorted, i, ev, state, fault_of, acc) ==
    IF i > Len(sorted) THEN acc
    ELSE EvaluateRulesAfter(sorted, i, ev, state, fault_of, acc,
                            RuleOutcome(sorted[i], ev, state,
                                        fault_of[sorted[i].name], acc.world))

NoCounts == [n \in {} |-> 0]

\* No process_event call is between its read and its write of the counter.
NotLoading == [busy |-> FALSE]

\* What a process_event call leaves: eng holds the store, the execution
\* counts and the desktop it finds, count is what its read of line 74
\* returned.
ProcessEventRecord(count, ev, state, result) ==
    [event_count |-> count + 1, store |-> state, counts |-> result.counts,
     last_event |-> ev, log |-> result.log, evaluated |-> result.evaluated,
     results |-> result.results, calls |-> result.calls, world |-> result.world]

\* Lines 85-107 on the updated store: nothing is what the call has done
\* before the loop.  Line 86 raising ends the call in the except clause
\* of line 109.
RunRules(ev, state, enabled_rules, nothing) ==
    IF SortRaises(enabled_rules) THEN nothing
    ELSE EvaluateRules(SortRulesByPriority(enabled_rules), 1, ev, state, faults,
                       nothing)

\* Lines 82-107 for the event ev.
ProcessMappedEvent(eng, count, ev) ==
    ProcessEventRecord(
        count, ev,
        UpdateWindowState(eng.store, ev.event_type, ev.hwnd, ev.window_info),
        RunRules(ev,
                 UpdateWindowState(eng.store, ev.event_type, ev.hwnd, ev.window_info),
                 GetEnabledRules(rules_config),
                 [evaluated |-> << >>, log |-> << >>, counts |-> eng.counts,
                  results |-> << >>, calls |-> << >>, world |-> eng.world]))

ProcessEventResult(eng, count, event_id, hwnd, window_info) ==
    ProcessMappedEvent(eng, count,
                       [event_type |-> EventTypeMapping(event_id), hwnd |-> hwnd,
                        window_info |-> window_info])

\* The engine and the desktop as a process_event call finds them.
CurrentEngine ==
    [store |-> internal_window_state, counts |-> rule_execution_count,
     world |-> [desktop |-> desktop, cache |-> folder_path_cache,
                fg |-> foreground_hwnd]]

\* What _update_window_state, lines 121-137, does to a dict that
\* get_window_state returned before: an assignment or a del rebinds the
\* key of the store and leaves the old entry to the copy alone, the
\* update() of line 136 changes the entry both dicts hold.
CopyAfterEvent(copy, event_type, hwnd, window_info) ==
    IF ~copy.taken THEN copy
    ELSE IF event_type \in {"CREATE", "SHOW", "DESTROY", "HIDE"}
      THEN [copy EXCEPT !.shared = @ \ {hwnd}]
    ELSE IF event_type = "NAMECHANGE" /\ hwnd \in copy.shared
      THEN [copy EXCEPT !.value[hwnd] = DictUpdate(@, window_info)]
    ELSE copy

\* The engine and the desktop take what the process_event calls left.
EngineBecomes(result) ==
    /\ event_count' = result.event_count
    /\ internal_window_state' = result.store
    /\ rule_execution_count' = result.counts
    /\ last_event' = result.last_event
    /\ dispatch_log' = result.log
    /\ evaluated' = result.evaluated
    /\ dispatch_results' = result.results
    /\ os_calls' = result.calls
    /\ folder_path_cache' = result.world.cache
    /\ foreground_hwnd' = result.world.fg

\* process_event, lines 64-110, from the write of self._event_count += 1
\* on, where count is the value its read returned.
ProcessEventFrom(count, event_id, hwnd, window_info) ==
    /\ event_calls < MaxEvents
    /\ EngineBecomes(ProcessEventResult(CurrentEngine, count, event_id, hwnd,
                                        window_info))
    /\ event_calls' = event_calls + 1
    /\ state_copy' = CopyAfterEvent(state_copy, EventTypeMapping(event_id), hwnd,
                                    window_info)
    /\ UNCHANGED <<rules_config, faults, cleared_at, match_probe, desktop,
                   pollVars, schedVars, sort_call, cycle_store, cycle_calls, cycleVars, cacheVars,
                   load_call, stats_copy, lockVars>>

\* process_event, lines 64-110, with no other thread between the read and
\* the write of line 74.
ProcessEvent(event_id, hwnd, window_info) ==
    /\ ~count_load.busy
    /\ ProcessEventFrom(event_count, event_id, hwnd, window_info)
    /\ UNCHANGED count_load

\* self._event_count += 1, line 74: the read.  The statement is not atomic
\* and no lock is held, so other threads may run before the write.
LoadEventCount ==
    /\ ~count_load.busy
    /\ event_calls < MaxEvents
    /\ count_load' = [busy |-> TRUE, value |-> event_count]
    /\ UNCHANGED <<rules_config, internal_window_state, event_count,
                   rule_execution_count, last_event, dispatch_log, evaluated,
                   faults, dispatch_results, os_calls, event_calls, cleared_at,
                   match_probe, worldVars, pollVars, schedVars, auxVars>>

\* The rest of that process_event call: the write of line 74 and all
\* that follows it.
StoreEventCount(event_id, hwnd, window_info) ==
    /\ count_load.busy
    /\ ProcessEventFrom(count_load.value, event_id, hwnd, window_info)
    /\ count_load' = NotLoading

\* A process_event call made by another worker in between.
OverlappingEvent(event_id, hwnd, window_info) ==
    /\ count_load.busy
    /\ ProcessEventFrom(event_count, event_id, hwnd, window_info)
    /\ UNCHANGED count_load

\* clear_statistics, lines 294-298.
ClearStatistics ==
    /\ event_count' = 0
    /\ rule_execution_count' = NoCounts
    /\ cleared_at' = event_calls
    /\ UNCHANGED <<rules_config, internal_window_state, last_event, dispatch_log,
                   evaluated, faults, dispatch_results, os_calls, event_calls,
                   match_probe, count_load, worldVars, pollVars, schedVars, auxVars>>

\* A call of _match_rule_condition for rule i and the event e, made by a
\* caller other than process_event: the first call, or the same call again.
MatchCall(i, e) ==
    /\ i \in 1..Len(rules_config)
    /\ \/ match_probe.calls = 0
       \/ match_probe.calls = 1 /\ match_probe.rule = i /\ match_probe.event = e
    /\ LET rule == rules_config[i]
           matched == MatchRuleCondition(rule, EventTypeMapping(e.id), e.window_info,
                                         faults[rule.name] = "match_raises")
       IN  match_probe' =
               IF match_probe.calls = 0
                 THEN [calls |-> 1, rule |-> i, event |-> e, at |-> event_calls,
                       first |-> matched, last |-> matched]
                 ELSE [match_probe EXCEPT !.calls = 2, !.last = matched]
    /\ UNCHANGED <<rules_config, internal_window_state, event_count,
                   rule_execution_count, last_event, dispatch_log, evaluated,
                   faults, dispatch_results, os_calls, event_calls, cleared_at,
                   count_load, worldVars, pollVars, schedVars, auxVars>>

\* What may go wrong while one rule is handled.
FaultKinds == {"none", "match_raises", "filter_raises", "dispatch_raises",
               "dispatch_fails"}

\* At most one rule meets a fault, and meets it at every event: a pattern
\* that does not compile, a window the OS refuses to act on.
FaultMaps ==
    {[n \in RuleNames |-> IF n = bad THEN kind ELSE "none"] :
        bad \in RuleNames, kind \in FaultKinds}

\* The events the poll loop delivers: lines 147, 163, 171.
DeliveredEvents ==
    {[id |-> "EVENT_OBJECT_CREATE", hwnd |-> h, window_info |-> FullInfo(h, c)] :
        h \in Handles, c \in WindowClasses}
    \cup
    {[id |-> "EVENT_OBJECT_DESTROY", hwnd |-> h, window_info |-> ClosedInfo(h, c)] :
        h \in Handles, c \in WindowClasses}
    \cup
    {[id |-> "EVENT_OBJECT_NAMECHANGE", hwnd |-> h, window_info |-> FullInfo(h, c)] :
        h \in Handles, c \in WindowClasses}

\* The rule list: three validated rules; which are enabled, their priorities
\* and the event of the third are chosen when the list is loaded.
Rule1(enabled, priority) ==
    [name |-> "r1", enabled |-> enabled, priority |-> priority,
     trigger |-> [event_type |-> "CREATE"],
     action |-> [type |-> "BRING_TO_FOREGROUND", exclude_trigger_window |-> TRUE]]

Rule2(enabled, priority) ==
    [name |-> "r2", enabled |-> enabled, priority |-> priority,
     trigger |-> [event_type |-> "CREATE", window_class |-> "x"],
     action |-> [type |-> "CLOSE_WINDOW", is_visible |-> TRUE]]

Rule3(enabled, priority, event_type) ==
    [name |-> "r3", enabled |-> enabled, priority |-> priority,
     trigger |-> [event_type |-> event_type],
     action |-> [type |-> "HIDE_WINDOW"]]

\* r2 has priority 2; r1 sits below it or ties with it, r3 sits below both
\* or above both, so the list order and the priority order differ.
RuleLists ==
    {<<Rule1(e1, p1), Rule2(e2, 2), Rule3(e3, p3, "CREATE")>> :
        e1 \in BOOLEAN, e2 \in BOOLEAN, e3 \in BOOLEAN,
        p1 \in {1, 2}, p3 \in {1, 3}}

NoEvent == [event_type |-> "none"]

\* _match_rule_condition was not yet called from outside process_event.
NoProbe == [calls |-> 0]

\* The engine after __init__: the rules given, the store filled with the
\* windows open at that time (_initialize_window_state), no statistics.
EngineInit ==
    /\ rules_config \in RuleLists
    /\ internal_window_state \in {StoreOf(c) : c \in InitialStores}
    /\ event_count = 0
    /\ rule_execution_count = NoCounts
    /\ last_event = NoEvent
    /\ dispatch_log = << >>
    /\ evaluated = << >>
    /\ faults \in FaultMaps
    /\ dispatch_results = << >>
    /\ os_calls = << >>
    /\ event_calls = 0
    /\ cleared_at = 0
    /\ match_probe = NoProbe
    /\ count_load = NotLoading

\* The engine where only the scheduler or the poll loop is explored.
EngineIdle ==
    /\ rules_config = << >>
    /\ internal_window_state = StoreOf([h \in {} |-> "x"])
    /\ event_count = 0
    /\ rule_execution_count = NoCounts
    /\ last_event = NoEvent
    /\ dispatch_log = << >>
    /\ evaluated = << >>
    /\ faults = [n \in RuleNames |-> "none"]
    /\ dispatch_results = << >>
    /\ os_calls = << >>
    /\ event_calls = 0
    /\ cleared_at = 0
    /\ match_probe = NoProbe
    /\ count_load = NotLoading

EngineNext ==
    \E e \in DeliveredEvents : ProcessEvent(e.id, e.hwnd, e.window_info)

\* The engine after RuleEngine(rules) was built with the windows of store
\* open, where fault_of says what goes wrong for which rule.
EngineFresh(rules, store, fault_of) ==
    /\ rules_config = rules
    /\ internal_window_state = store
    /\ event_count = 0
    /\ rule_execution_count = NoCounts
    /\ last_event = NoEvent
    /\ dispatch_log = << >>
    /\ evaluated = << >>
    /\ faults = fault_of
    /\ dispatch_results = << >>
    /\ os_calls = << >>
    /\ event_calls = 0
    /\ cleared_at = 0
    /\ match_probe = NoProbe
    /\ count_load = NotLoading

NoFaults == [n \in RuleNames |-> "none"]

EmptyStore == StoreOf([h \in {} |-> "x"])

\* get_window_state was not called.  Of a dict that was returned, value
\* is what its holder reads in it and shared are the handles whose entry
\* is the very dict object the store holds for that handle.
NoCopy == [taken |-> FALSE, value |-> EmptyStore, shared |-> {}]

\* get_statistics was not called.
NoStatistics ==
    [taken |-> FALSE, shares_counts |-> FALSE,
     value |-> [total_events_processed |-> 0, current_windows_tracked |-> 0,
                rule_execution_counts |-> NoCounts, enabled_rules |-> 0]]

CallerIdle ==
    /\ state_copy = NoCopy
    /\ stats_copy = NoStatistics

\* The threads that enter the engine: the one that refreshes the store and
\* the monitoring thread that hands in the events.
Threads == {"ui", "monitor"}

\* The monitor thread is in no process_event call.
NoPending == [busy |-> FALSE]

\* Nobody is inside the engine.
LockIdle ==
    /\ store_lock = "free"
    /\ lock_at = [t \in Threads |-> "idle"]
    /\ refresh_todo = << >>
    /\ lock_event = NoPending

\* No poll cycle has run with process_event as its callback.
CycleIdle ==
    /\ cycle_events = << >>
    /\ info_queries = << >>

\* No get_window_info result is cached.
InfoCacheIdle == window_info_cache = [h \in {} |-> None]

\* An LRUCache after __init__, lines 18-23, at time 0.
EmptyCache == [cache |-> << >>, timestamps |-> [k \in {} |-> 0]]

CacheIdle ==
    /\ lru = EmptyCache
    /\ lru_clock = 0
    /\ lru_last_set = [k \in {} |-> None]
    /\ lru_result = [op |-> "init", odd |-> FALSE]

\* No call outside process_event was made yet.
NotSorted == [done |-> FALSE, rules |-> << >>]

\* load_rules was not called.
NotLoaded == [done |-> FALSE, raw |-> << >>, rules |-> << >>]

\* Nothing outside the engine has happened; the window-info cache is
\* left to the specification.
AuxQuiet ==
    /\ sort_call = NotSorted
    /\ cycle_store = EmptyStore
    /\ cycle_calls = << >>
    /\ load_call = NotLoaded
    /\ CallerIdle
    /\ LockIdle
    /\ CycleIdle
    /\ CacheIdle

AuxIdle == AuxQuiet /\ InfoCacheIdle

\* A desktop without windows: nothing is cached, no window is in front.
WorldIdle ==
    /\ desktop = [h \in {} |-> None]
    /\ folder_path_cache = [h \in {} |-> None]
    /\ foreground_hwnd = 0

(***************************************************************************)
(* sort_rules_by_priority(get_enabled_rules(rules)) as a function of the   *)
(* rule list: the lists of up to MaxRules rules whose priority is absent   *)
(* or one of three integers.                                               *)
(***************************************************************************)
NameOf(i) == <<"r1", "r2", "r3", "r4", "r5">>[i]

SortPriorities == {0, 1, 2}

\* The i-th rule of a list: p is <<"int", q>> for the priority q and
\* <<"absent", 0>> for a rule without the key.
SortRule(i, enabled, p) ==
    IF p[1] = "absent"
      THEN [name |-> NameOf(i), enabled |-> enabled,
            trigger |-> [event_type |-> "CREATE"],
            action |-> [type |-> "HIDE_WINDOW"]]
      ELSE [name |-> NameOf(i), enabled |-> enabled, priority |-> p[2],
            trigger |-> [event_type |-> "CREATE"],
            action |-> [type |-> "HIDE_WINDOW"]]

SortInputs ==
    UNION {{[i \in 1..n |-> SortRule(i, en[i], pr[i])] :
               en \in [1..n -> BOOLEAN],
               pr \in [1..n -> {<<"int", q>> : q \in SortPriorities}
                                \cup {<<"absent", 0>>}]} :
           n \in 0..MaxRules}

\* lines 85-86 of engine.py, called on the rule list of the engine.
SortCall ==
    /\ ~sort_call.done
    /\ sort_call' = [done |-> TRUE,
                        rules |-> SortRulesByPriority(GetEnabledRules(rules_config))]
    /\ UNCHANGED <<pollVars, schedVars, engineVars, worldVars, cycle_store,
                   cycle_calls, cycleVars, cacheVars, load_call, callerVars, lockVars>>

InitSort ==
    /\ PollInit /\ SchedInit
    /\ \E rules \in SortInputs : EngineFresh(rules, EmptyStore, NoFaults)
    /\ WorldIdle /\ AuxIdle

SortNext == SortCall

(***************************************************************************)
(* The engine as its callers may use it: any event id, a NAMECHANGE that   *)
(* carries only some fields, a rule whose action type perform_action does  *)
(* not know, and clear_statistics between the events.                      *)
(***************************************************************************)
\* A window whose executable could not be resolved (get_window_info, line 42).
NoExeInfo(h) == [FullInfo(h, "x") EXCEPT !.exe_path = None]

\* An info that carries the handle and a new title only.
TitleOnly(h) == [hwnd |-> h, title |-> "b"]

\* The events a caller may hand in for the window h.
EventsFor(h) ==
    {[id |-> "EVENT_OBJECT_CREATE", hwnd |-> h, window_info |-> i] :
        i \in {FullInfo(h, "x"), NoExeInfo(h)}}
    \cup
    {[id |-> id, hwnd |-> h, window_info |-> FullInfo(h, "y")] :
        id \in {"EVENT_OBJECT_SHOW", "EVENT_SYSTEM_FOREGROUND", "EVENT_OTHER"}}
    \cup
    {[id |-> id, hwnd |-> h, window_info |-> ClosedInfo(h, "x")] :
        id \in {"EVENT_OBJECT_DESTROY", "EVENT_OBJECT_HIDE"}}
    \cup
    {[id |-> "EVENT_OBJECT_NAMECHANGE", hwnd |-> h, window_info |-> i] :
        i \in {TitleOnly(h), FullInfo(h, "y")}}

ContractEvents == UNION {EventsFor(h) : h \in Handles}

\* The rule of scenario A: no priority, every window of the store a target.
ForegroundRule(enabled) ==
    [name |-> "r1", enabled |-> enabled,
     trigger |-> [event_type |-> "CREATE", executable_name |-> "App.exe"],
     action |-> [type |-> "BRING_TO_FOREGROUND"]]

\* A rule whose action type is none of perform_action's five.
UnknownActionRule(enabled) ==
    [name |-> "r2", enabled |-> enabled, priority |-> 5,
     trigger |-> [event_type |-> "CREATE"],
     action |-> [type |-> "FLASH_WINDOW"]]

\* A rule that finds no target when the last window was destroyed.
CloseOnDestroyRule(enabled) ==
    [name |-> "r3", enabled |-> enabled, priority |-> 1,
     trigger |-> [event_type |-> "DESTROY"],
     action |-> [type |-> "CLOSE_WINDOW", is_visible |-> TRUE]]

ContractRuleLists ==
    {<<ForegroundRule(e1), UnknownActionRule(e2), CloseOnDestroyRule(e3)>> :
        e1 \in BOOLEAN, e2 \in BOOLEAN, e3 \in BOOLEAN}

\* What the OS may do to the calls of the first rule.
ContractFaults ==
    {[n \in RuleNames |-> IF n = "r1" THEN kind ELSE "none"] :
        kind \in {"none", "dispatch_raises", "dispatch_fails"}}

InitContract ==
    /\ PollInit /\ SchedInit
    /\ \E rules \in ContractRuleLists, c \in InitialStores, f \in ContractFaults :
          EngineFresh(rules, StoreOf(c), f)
    /\ WorldIdle /\ AuxIdle

ContractNext ==
    \/ \E e \in ContractEvents : ProcessEvent(e.id, e.hwnd, e.window_info)
    \/ ClearStatistics

SpecContract == InitContract /\ [][ContractNext]_vars

(***************************************************************************)
(* The engine and the holders of what it returned: get_window_state and    *)
(* get_statistics are called once, events and refresh_window_state follow, *)
(* and the holder of the returned store dict writes into it.               *)
(***************************************************************************)
\* get_window_state, lines 259-267: dict.copy() is a new dict with the
\* same entry objects.
GetWindowStateResult(store) ==
    [taken |-> TRUE, value |-> store, shared |-> DOMAIN store]

GetWindowState ==
    /\ ~state_copy.taken
    /\ state_copy' = GetWindowStateResult(internal_window_state)
    /\ UNCHANGED <<engineVars, worldVars, pollVars, schedVars, sort_call,
                   cycle_store, cycle_calls, cycleVars, cacheVars, load_call, stats_copy, lockVars>>

\* A get_statistics that hands out self._rule_execution_count itself.
GetStatisticsResultNoCopy(eng) ==
    [taken |-> TRUE, shares_counts |-> TRUE,
     value |-> [total_events_processed |-> eng.event_count,
                current_windows_tracked |-> Cardinality(DOMAIN eng.store),
                rule_execution_counts |-> eng.counts,
                enabled_rules |-> Len(GetEnabledRules(eng.rules))]]

\* get_statistics, lines 269-282: a new dict of two numbers, a dict() copy
\* of the execution counts and the number of enabled rules.
GetStatisticsResult(eng) ==
    [taken |-> TRUE, shares_counts |-> FALSE,
     value |-> [total_events_processed |-> eng.event_count,
                current_windows_tracked |-> Cardinality(DOMAIN eng.store),
                rule_execution_counts |-> eng.counts,
                enabled_rules |-> Len(GetEnabledRules(eng.rules))]]

GetStatistics ==
    /\ ~stats_copy.taken
    /\ stats_copy' = GetStatisticsResult(
                         [event_count |-> event_count,
                          store |-> internal_window_state,
                          counts |-> rule_execution_count,
                          rules |-> rules_config])
    /\ UNCHANGED <<engineVars, worldVars, pollVars, schedVars, sort_call,
                   cycle_store, cycle_calls, cycleVars, cacheVars, load_call, state_copy, lockVars>>

\* The statistics as their holder reads them now.
StatisticsSeen ==
    IF stats_copy.shares_counts
      THEN [stats_copy.value EXCEPT !.rule_execution_counts = rule_execution_count]
      ELSE stats_copy.value

\* The holder of the returned dict writes a title into one of its entries.
ModifyCopyEntry(h) ==
    /\ state_copy.taken
    /\ h \in DOMAIN state_copy.value
    /\ state_copy.value[h].title # "z"
    /\ state_copy' = [state_copy EXCEPT !.value[h].title = "z"]
    /\ internal_window_state' =
          IF h \in state_copy.shared
            THEN [internal_window_state EXCEPT ![h].title = "z"]
            ELSE internal_window_state
    /\ UNCHANGED <<rules_config, event_count, rule_execution_count, last_event,
                   dispatch_log, evaluated, faults, dispatch_results, os_calls,
                   event_calls, cleared_at, match_probe, count_load, worldVars,
                   pollVars, schedVars, sort_call, cycle_store, cycle_calls, cycleVars, cacheVars,
                   load_call, stats_copy, lockVars>>

\* The holder deletes a key of the returned dict.
DeleteCopyEntry(h) ==
    /\ state_copy.taken
    /\ h \in DOMAIN state_copy.value
    /\ state_copy' = [state_copy EXCEPT
                         !.value = [g \in (DOMAIN @) \ {h} |-> @[g]],
                         !.shared = @ \ {h}]
    /\ UNCHANGED <<engineVars, worldVars, pollVars, schedVars, sort_call,
                   cycle_store, cycle_calls, cycleVars, cacheVars, load_call, stats_copy, lockVars>>

\* refresh_window_state, lines 284-292 and 48-62: the open windows get the
\* dict get_window_info returns for them; no key is removed.
RefreshWindowState(open) ==
    /\ internal_window_state' =
          [h \in (DOMAIN internal_window_state) \cup open |->
              IF h \in open THEN FullInfo(h, "x") ELSE internal_window_state[h]]
    /\ internal_window_state' # internal_window_state
    /\ state_copy' = [state_copy EXCEPT !.shared = @ \ open]
    /\ UNCHANGED <<rules_config, event_count, rule_execution_count, last_event,
                   dispatch_log, evaluated, faults, dispatch_results, os_calls,
                   event_calls, cleared_at, match_probe, count_load, worldVars,
                   pollVars, schedVars, sort_call, cycle_store, cycle_calls, cycleVars, cacheVars,
                   load_call, stats_copy, lockVars>>

InitCopy ==
    /\ PollInit /\ SchedInit
    /\ \E e \in BOOLEAN, c \in InitialStores :
          EngineFresh(<<ForegroundRule(e)>>, StoreOf(c), NoFaults)
    /\ WorldIdle /\ AuxIdle

CopyNext ==
    \/ \E e \in ContractEvents : ProcessEvent(e.id, e.hwnd, e.window_info)
    \/ ClearStatistics
    \/ GetWindowState
    \/ GetStatistics
    \/ \E h \in Handles : ModifyCopyEntry(h)
    \/ \E h \in Handles : DeleteCopyEntry(h)
    \/ \E open \in SUBSET Handles : RefreshWindowState(open)

SpecCopy == InitCopy /\ [][CopyNext]_vars

(***************************************************************************)
(* The store lock: refresh_window_state on one thread, process_event on    *)
(* the monitoring thread, each in the steps that take and give back        *)
(* self._window_state_lock and that enter and leave the OS.                *)
(***************************************************************************)
\* The places of a thread that are inside enum_top_level_windows,
\* get_window_info or a window_manager primitive.
OSCallPlaces == {"enumerating", "querying", "primitive"}

LockFrame ==
    UNCHANGED <<worldVars, pollVars, schedVars, sort_call, cycle_store,
                cycle_calls, cycleVars, cacheVars, load_call, stats_copy>>

EngineFrame ==
    UNCHANGED <<rules_config, event_count, rule_execution_count, last_event,
                dispatch_log, evaluated, faults, dispatch_results, os_calls,
                event_calls, cleared_at, match_probe, count_load>>

\* _initialize_window_state, line 53-54: the lock is taken and
\* enum_top_level_windows is entered.
RefreshEnter ==
    /\ lock_at["ui"] = "idle"
    /\ store_lock = "free"
    /\ refresh_todo = << >>
    /\ store_lock' = "ui"
    /\ lock_at' = [lock_at EXCEPT !["ui"] = "enumerating"]
    /\ UNCHANGED <<internal_window_state, state_copy, refresh_todo, lock_event>>
    /\ EngineFrame /\ LockFrame

\* Line 54: the enumeration returns the open windows; get_window_info is
\* entered for the first of them, or the with block is left.
RefreshEnumerated(order) ==
    /\ lock_at["ui"] = "enumerating"
    /\ refresh_todo' = order
    /\ IF order = << >>
         THEN /\ store_lock' = "free"
              /\ lock_at' = [lock_at EXCEPT !["ui"] = "idle"]
         ELSE /\ store_lock' = store_lock
              /\ lock_at' = [lock_at EXCEPT !["ui"] = "querying"]
    /\ UNCHANGED <<internal_window_state, state_copy, lock_event>>
    /\ EngineFrame /\ LockFrame

\* Lines 55-57: get_window_info returns for the next handle and its dict
\* is stored; the next query is entered, or the with block is left.
RefreshQueried ==
    /\ lock_at["ui"] = "querying"
    /\ internal_window_state' =
          [h \in (DOMAIN internal_window_state) \cup {Head(refresh_todo)} |->
              IF h = Head(refresh_todo) THEN FullInfo(h, "x")
              ELSE internal_window_state[h]]
    /\ state_copy' = [state_copy EXCEPT !.shared = @ \ {Head(refresh_todo)}]
    /\ refresh_todo' = Tail(refresh_todo)
    /\ IF Tail(refresh_todo) = << >>
         THEN /\ store_lock' = "free"
              /\ lock_at' = [lock_at EXCEPT !["ui"] = "idle"]
         ELSE /\ store_lock' = store_lock
              /\ lock_at' = [lock_at EXCEPT !["ui"] = "querying"]
    /\ UNCHANGED lock_event
    /\ EngineFrame /\ LockFrame

\* process_event, lines 74-82, and _update_window_state, line 130: the
\* event is counted and the lock is taken.
EventEnter(e) ==
    /\ lock_at["monitor"] = "idle"
    /\ store_lock = "free"
    /\ event_calls < MaxEvents
    /\ event_count' = event_count + 1
    /\ store_lock' = "monitor"
    /\ lock_at' = [lock_at EXCEPT !["monitor"] = "update"]
    /\ lock_event' = [busy |-> TRUE, state |-> internal_window_state,
                      ev |-> [event_type |-> EventTypeMapping(e.id),
                              hwnd |-> e.hwnd, window_info |-> e.window_info]]
    /\ UNCHANGED <<rules_config, internal_window_state, rule_execution_count,
                   last_event, dispatch_log, evaluated, faults, dispatch_results,
                   os_calls, event_calls, cleared_at, match_probe, count_load,
                   state_copy, refresh_todo>>
    /\ LockFrame

\* Lines 131-137: the store is updated and the lock is given back.
EventUpdated ==
    /\ lock_at["monitor"] = "update"
    /\ internal_window_state' =
          UpdateWindowState(internal_window_state, lock_event.ev.event_type,
                            lock_event.ev.hwnd, lock_event.ev.window_info)
    /\ state_copy' = CopyAfterEvent(state_copy, lock_event.ev.event_type,
                                    lock_event.ev.hwnd, lock_event.ev.window_info)
    /\ store_lock' = "free"
    /\ lock_at' = [lock_at EXCEPT !["monitor"] = "rules"]
    /\ UNCHANGED <<refresh_todo, lock_event>>
    /\ EngineFrame /\ LockFrame

\* The one enabled rule matches the event the monitor thread holds.
PendingMatches ==
    /\ Len(GetEnabledRules(rules_config)) = 1
    /\ MatchRuleCondition(GetEnabledRules(rules_config)[1],
                          lock_event.ev.event_type, lock_event.ev.window_info,
                          FALSE)

\* _filter_target_windows, line 207: the lock is taken for the walk over
\* the store.
EventFilter ==
    /\ lock_at["monitor"] = "rules"
    /\ PendingMatches
    /\ store_lock = "free"
    /\ store_lock' = "monitor"
    /\ lock_at' = [lock_at EXCEPT !["monitor"] = "filter"]
    /\ UNCHANGED <<internal_window_state, state_copy, refresh_todo, lock_event>>
    /\ EngineFrame /\ LockFrame

\* Lines 208-218 and 98-100: the targets are those of the store as it is
\* now, the lock is given back, and perform_action enters its primitive
\* if there is a target.
EventFiltered ==
    /\ lock_at["monitor"] = "filter"
    /\ lock_event' = [lock_event EXCEPT !.state = internal_window_state]
    /\ store_lock' = "free"
    /\ lock_at' = [lock_at EXCEPT !["monitor"] =
                      IF FilterTargetWindows(GetEnabledRules(rules_config)[1],
                                             lock_event.ev.window_info,
                                             internal_window_state, FALSE) = {}
                        THEN "return" ELSE "primitive"]
    /\ UNCHANGED <<internal_window_state, state_copy, refresh_todo>>
    /\ EngineFrame /\ LockFrame

\* Lines 100-111: the primitives have returned, the rule is counted and
\* process_event returns.
EventDone ==
    /\ \/ lock_at["monitor"] \in {"primitive", "return"}
       \/ lock_at["monitor"] = "rules" /\ ~PendingMatches
    /\ EngineBecomes(
          ProcessEventRecord(
              event_count - 1, lock_event.ev, internal_window_state,
              RunRules(lock_event.ev, lock_event.state,
                       GetEnabledRules(rules_config),
                       [evaluated |-> << >>, log |-> << >>,
                        counts |-> rule_execution_count, results |-> << >>,
                        calls |-> << >>, world |-> CurrentEngine.world])))
    /\ event_calls' = event_calls + 1
    /\ lock_at' = [lock_at EXCEPT !["monitor"] = "idle"]
    /\ lock_event' = NoPending
    /\ UNCHANGED <<rules_config, faults, cleared_at, match_probe, count_load,
                   desktop, store_lock, refresh_todo, state_copy>>
    /\ UNCHANGED <<pollVars, schedVars, sort_call, cycle_store, cycle_calls, cycleVars, cacheVars,
                   load_call, stats_copy>>

InitLock ==
    /\ PollInit /\ SchedInit
    /\ \E e \in BOOLEAN, c \in InitialStores :
          EngineFresh(<<ForegroundRule(e)>>, StoreOf(c), NoFaults)
    /\ WorldIdle /\ AuxIdle

LockNext ==
    \/ RefreshEnter
    \/ \E open \in SUBSET Handles : \E order \in Orders(open) :
          RefreshEnumerated(order)
    \/ RefreshQueried
    \/ \E e \in ContractEvents : EventEnter(e)
    \/ EventUpdated
    \/ EventFilter
    \/ EventFiltered
    \/ EventDone

SpecLock == InitLock /\ [][LockNext]_vars

(***************************************************************************)
(* The application as main.py wires it: the poll loop hands every event of *)
(* a cycle to process_event, one after the other.                          *)
(***************************************************************************)
\* get_window_info for an open window whose title and class are those of
\* basic and whose executable path resolved to exe (or to None).
WindowInfoOf(h, basic, exe) ==
    [FullInfo(h, basic.class_name) EXCEPT !.title = basic.title, !.exe_path = exe]

\* A loop that asks get_window_info about the closed window: the window
\* is gone and the OS returns empty strings.
ClosedInfoOfQueried(h, basic) ==
    [ClosedInfo(h, "") EXCEPT !.title = ""]

\* The minimal info of lines 153-162, from the previous snapshot.
ClosedInfoOf(h, basic) ==
    [ClosedInfo(h, basic.class_name) EXCEPT !.title = basic.title]

ExePaths == {"C:\\Apps\\App.EXE", None}

\* get_window_info for an open window, win32_helpers.py lines 18-67, under
\* cached_window_info, cache.py lines 202-219: the cached dict of the
\* handle if there is one, else what the OS says now.
GetWindowInfo(h, basic, exe, cached) ==
    IF h \in DOMAIN cached THEN cached[h] ELSE WindowInfoOf(h, basic, exe)

\* cache.set_window_info for the handles of hs that were not cached.
InfoCacheAfter(hs, cur, exe, cached) ==
    [h \in (DOMAIN cached) \cup hs |->
        IF h \in DOMAIN cached THEN cached[h] ELSE WindowInfoOf(h, cur[h], exe[h])]

\* The event_callback calls of lines 141-171 for the three orders.
CycleEvents(prev, cur, on, oc, og, exe, cached) ==
    [i \in DOMAIN on |->
        [id |-> "EVENT_OBJECT_CREATE", hwnd |-> on[i],
         window_info |-> GetWindowInfo(on[i], cur[on[i]], exe[on[i]], cached)]]
    \o
    [i \in DOMAIN oc |->
        [id |-> "EVENT_OBJECT_DESTROY", hwnd |-> oc[i],
         window_info |-> ClosedInfoOf(oc[i], prev[oc[i]])]]
    \o
    [i \in DOMAIN og |->
        [id |-> "EVENT_OBJECT_NAMECHANGE", hwnd |-> og[i],
         window_info |-> GetWindowInfo(og[i], cur[og[i]], exe[og[i]], cached)]]

\* The process_event calls for the events from the k-th on; eng.all_calls
\* collects the OS calls of all of them.
Delivered(eng, r) ==
    [event_count |-> r.event_count, store |-> r.store, counts |-> r.counts,
     last_event |-> r.last_event, log |-> r.log, evaluated |-> r.evaluated,
     results |-> r.results, calls |-> r.calls, world |-> r.world,
     all_calls |-> eng.all_calls \o r.calls]

RECURSIVE DeliverEvents(_, _, _)
DeliverEvents(events, k, eng) ==
    IF k > Len(events) THEN eng
    ELSE DeliverEvents(events, k + 1,
             Delivered(eng, ProcessEventResult(eng, eng.event_count, events[k].id,
                                               events[k].hwnd,
                                               events[k].window_info)))

\* A loop that asks get_window_info about every window of the snapshot.
InfoQueriesAll(cur, on, og) == Ascending(DOMAIN cur)

\* The get_window_info calls of a cycle, lines 145 and 169: one for each
\* new window and one for each changed window.
InfoQueries(cur, on, og) == on \o og

\* The engine after the events of a cycle, with the OS calls they made.
CycleBecomes(end) ==
    /\ EngineBecomes(end)
    /\ cycle_calls' = end.all_calls

\* One pass of the loop body, lines 105-174, with process_event as the
\* event_callback: cur is what EnumWindows returned.
AppCycle(cur) ==
    /\ event_calls < MaxEvents
    /\ ~count_load.busy
    /\ cycle_prev' = previous_windows
    /\ current_windows' = cur
    /\ new_windows' = NewWindows(previous_windows, cur)
    /\ closed_windows' = ClosedWindows(previous_windows, cur)
    /\ changed_windows' = ChangedWindows(previous_windows, cur)
    /\ previous_windows' = cur
    /\ cycle_status' = "ok"
    /\ cycle_store' = internal_window_state
    /\ \E on \in Orders(new_windows'), oc \in Orders(closed_windows'),
          og \in Orders(changed_windows'), exe \in [Handles -> ExePaths] :
          /\ delivered' = EventsOf("CREATE", on) \o EventsOf("DESTROY", oc)
                             \o EventsOf("NAMECHANGE", og)
          /\ event_calls' = event_calls + Len(on) + Len(oc) + Len(og)
          /\ cycle_events' = CycleEvents(previous_windows, cur, on, oc, og, exe,
                                         window_info_cache)
          /\ info_queries' = InfoQueries(cur, on, og)
          /\ window_info_cache' =
                InfoCacheAfter(new_windows' \cup changed_windows', cur, exe,
                               window_info_cache)
          /\ CycleBecomes(
                DeliverEvents(
                    CycleEvents(previous_windows, cur, on, oc, og, exe,
                                window_info_cache), 1,
                    [event_count |-> event_count,
                     store |-> internal_window_state,
                     counts |-> rule_execution_count, last_event |-> last_event,
                     log |-> dispatch_log, evaluated |-> evaluated,
                     results |-> dispatch_results, calls |-> os_calls,
                     world |-> CurrentEngine.world, all_calls |-> << >>]))
    /\ UNCHANGED <<rules_config, faults, cleared_at, match_probe, count_load,
                   desktop, sort_call, load_call, callerVars, lockVars, cacheVars,
                   schedVars>>

\* An entry of window_info_cache passes its 60 seconds (cache.py lines
\* 30-33, 101) or is evicted: the next get_window_info asks the OS.
ExpireWindowInfo(h) ==
    /\ h \in DOMAIN window_info_cache
    /\ window_info_cache' =
          [k \in (DOMAIN window_info_cache) \ {h} |-> window_info_cache[k]]
    /\ UNCHANGED <<pollVars, schedVars, engineVars, worldVars, sort_call,
                   cycle_store, cycle_calls, load_call, callerVars, lockVars,
                   cycle_events, info_queries, cacheVars>>

\* stop() and start() of the monitor: the new thread begins
\* _run_message_loop with previous_windows = {}, event_monitor.py line 102.
MonitorRestart ==
    /\ previous_windows # EmptySnapshot
    /\ previous_windows' = EmptySnapshot
    /\ UNCHANGED <<current_windows, cycle_prev, new_windows, closed_windows,
                   changed_windows, delivered, event_calls, cycle_status,
                   schedVars, engineVars, worldVars, auxVars>>

\* A rule on DESTROY events that names an executable.
DestroyExeRule(enabled) ==
    [name |-> "r1", enabled |-> enabled,
     trigger |-> [event_type |-> "DESTROY", executable_name |-> "App.exe"],
     action |-> [type |-> "BRING_TO_FOREGROUND"]]

\* One rule, that of scenario A or one on DESTROY, enabled or not; the OS
\* may refuse to raise a window.  The engine's constructor has asked
\* get_window_info about every window of the store (engine.py lines
\* 48-62), and those answers are cached unless they have expired since.
InitApp ==
    /\ PollInit /\ SchedInit
    /\ \E e \in BOOLEAN, c \in InitialStores,
          f \in {NoFaults, [NoFaults EXCEPT !["r1"] = "dispatch_fails"]} :
          /\ \E r \in {ForegroundRule(e), DestroyExeRule(e)} :
                EngineFresh(<<r>>, StoreOf(c), f)
          /\ \E kept \in SUBSET DOMAIN c :
                window_info_cache = [h \in kept |-> StoreOf(c)[h]]
    /\ WorldIdle /\ AuxQuiet

AppNext ==
    \/ \E cur \in Snapshots : AppCycle(cur)
    \/ \E h \in Handles : ExpireWindowInfo(h)
    \/ MonitorRestart

SpecApp == InitApp /\ [][AppNext]_vars

(***************************************************************************)
(* Loading a rule list: every entry of the list of the file goes through   *)
(* _validate_rule, the engine is built on the entries that pass, and the   *)
(* events go to that engine.  An entry that is a JSON object is a record   *)
(* of its keys; a JSON value that is not an object is [json |-> its kind]. *)
(***************************************************************************)
IsDict(value) == "json" \notin DOMAIN value

\* valid_event_types, config.py line 174.
ValidEventTypes == {"CREATE", "DESTROY", "SHOW", "HIDE", "FOREGROUND", "NAMECHANGE"}

\* _validate_rule, config.py lines 132-195.  'name' not in rule is a
\* substring test on a text and raises on a number: both give False.
ValidateRule(rule) ==
    IF ~IsDict(rule) THEN FALSE
    ELSE IF ~({"name", "enabled", "trigger", "action"} \subseteq DOMAIN rule) THEN FALSE
    ELSE IF ~IsDict(rule.trigger) THEN FALSE
    ELSE IF ~IsDict(rule.action) THEN FALSE
    ELSE IF "event_type" \notin DOMAIN rule.trigger THEN FALSE
    ELSE IF "type" \notin DOMAIN rule.action THEN FALSE
    ELSE IF rule.trigger.event_type \notin ValidEventTypes THEN FALSE
    ELSE rule.action.type \in ActionTypes

\* load_rules, config.py lines 70-77, on the list the file holds.
LoadRules(rules) == SelectSeq(rules, ValidateRule)

\* The entries the i-th place of a rules file may hold.
EntriesAt(i) ==
    LET trigger == [event_type |-> "CREATE"]
        action == [type |-> "BRING_TO_FOREGROUND"]
        rule == [name |-> NameOf(i), enabled |-> TRUE, trigger |-> trigger,
                 action |-> action]
    IN  { rule,
          [name |-> NameOf(i), enabled |-> TRUE, priority |-> 5,
           trigger |-> trigger, action |-> action],
          [name |-> NameOf(i), enabled |-> TRUE, priority_text |-> "high",
           trigger |-> trigger, action |-> action],
          [name |-> NameOf(i), enabled |-> TRUE, trigger |-> trigger],
          [rule EXCEPT !.trigger = [json |-> "string"]],
          [rule EXCEPT !.trigger = [type |-> "window_created"]],
          [rule EXCEPT !.trigger = [event_type |-> "MOVE"]],
          [rule EXCEPT !.action = [type |-> "FLASH_WINDOW"]],
          [json |-> "string"],
          [json |-> "number"] }

RuleFiles ==
    UNION {{f \in [1..n -> UNION {EntriesAt(i) : i \in 1..n}] :
               \A i \in 1..n : f[i] \in EntriesAt(i)} : n \in 0..MaxRules}

\* ConfigManager.load_rules and RuleEngine(self.rules), main_window.py
\* lines 214-215: the engine is built on what load_rules returned.
LoadAndBuild ==
    /\ ~load_call.done
    /\ load_call' = [load_call EXCEPT !.done = TRUE,
                                      !.rules = LoadRules(load_call.raw)]
    /\ rules_config' = LoadRules(load_call.raw)
    /\ UNCHANGED <<internal_window_state, event_count, rule_execution_count,
                   last_event, dispatch_log, evaluated, faults,
                   dispatch_results, os_calls, event_calls, cleared_at,
                   match_probe, count_load, worldVars, pollVars, schedVars,
                   sort_call, cycle_store, cycle_calls, cycleVars, cacheVars, callerVars, lockVars>>

\* The monitor reports a new window to the engine that was built.
LoadedEvent(h) ==
    /\ load_call.done
    /\ ProcessEvent("EVENT_OBJECT_CREATE", h, FullInfo(h, "x"))

InitLoad ==
    /\ PollInit /\ SchedInit
    /\ EngineFresh(<< >>, EmptyStore, NoFaults)
    /\ WorldIdle
    /\ sort_call = NotSorted
    /\ cycle_store = EmptyStore
    /\ cycle_calls = << >>
    /\ CallerIdle
    /\ LockIdle
    /\ CycleIdle
    /\ InfoCacheIdle
    /\ CacheIdle
    /\ \E raw \in RuleFiles : load_call = [NotLoaded EXCEPT !.raw = raw]

LoadNext ==
    \/ LoadAndBuild
    \/ \E h \in Handles : LoadedEvent(h)

SpecLoad == InitLoad /\ [][LoadNext]_vars

(***************************************************************************)
(* CLOSE_DUPLICATE_PATH on a desktop that changes: windows open and close, *)
(* an explorer window is taken to another folder, a cached folder path     *)
(* expires (cache.py: 300 s, or the cleanup thread), and a CREATE event is *)
(* delivered for an open window: when it is new, and again for every open  *)
(* window after the monitoring was restarted (previous_windows = {}).      *)
(***************************************************************************)
Folders == {"C:\\Docs", "c:\\docs", "C:\\Pics"}

\* The windows a handle may stand for: an explorer window showing a folder
\* or a window of another application.
DesktopWindows ==
    {[class_name |-> "CabinetWClass", folder |-> f] : f \in Folders}
    \cup {[class_name |-> "x", folder |-> None]}

Desktops == UNION {[hs -> DesktopWindows] : hs \in SUBSET Handles}

\* get_window_info for the window w of the desktop.
DesktopInfo(h, w) ==
    [hwnd |-> h, title |-> "a", class_name |-> w.class_name,
     exe_path |-> IF w.class_name = "CabinetWClass"
                    THEN "C:\\Windows\\explorer.exe" ELSE "C:\\Apps\\App.EXE",
     is_visible |-> TRUE, is_top_level |-> TRUE]

\* The rule that closes the duplicates of a new explorer window.
DuplicatePathRule ==
    [name |-> "r1", enabled |-> TRUE, priority |-> 1,
     trigger |-> [event_type |-> "CREATE"],
     action |-> [type |-> "CLOSE_DUPLICATE_PATH"]]

\* The user opens the window w; it comes up in front.
OpenWindow(h, w) ==
    /\ h \notin DOMAIN desktop
    /\ desktop' = [g \in (DOMAIN desktop) \cup {h} |->
                      IF g = h THEN w ELSE desktop[g]]
    /\ foreground_hwnd' = h
    /\ UNCHANGED <<folder_path_cache, engineVars, pollVars, schedVars, auxVars>>

\* A window goes away: the user closed it, or it obeyed a WM_CLOSE.
CloseWindow(h) ==
    /\ h \in DOMAIN desktop
    /\ desktop' = [g \in (DOMAIN desktop) \ {h} |-> desktop[g]]
    /\ foreground_hwnd' = IF foreground_hwnd = h THEN 0 ELSE foreground_hwnd
    /\ UNCHANGED <<folder_path_cache, engineVars, pollVars, schedVars, auxVars>>

\* The user takes an explorer window to another folder.
Navigate(h, f) ==
    /\ h \in DOMAIN desktop
    /\ desktop[h].class_name = "CabinetWClass"
    /\ desktop[h].folder # f
    /\ desktop' = [desktop EXCEPT ![h].folder = f]
    /\ UNCHANGED <<folder_path_cache, foreground_hwnd, engineVars, pollVars,
                   schedVars, auxVars>>

\* LRUCache.get / cleanup_expired, cache.py lines 25-37 and 71-87: an entry
\* older than the ttl is removed.
ExpireFolderPath(h) ==
    /\ h \in DOMAIN folder_path_cache
    /\ folder_path_cache' = [g \in (DOMAIN folder_path_cache) \ {h} |->
                                folder_path_cache[g]]
    /\ UNCHANGED <<desktop, foreground_hwnd, engineVars, pollVars, schedVars,
                   auxVars>>

\* The poll loop delivers CREATE for the open window h (lines 141-147).
CreateEvent(h) ==
    /\ h \in DOMAIN desktop
    /\ ProcessEvent("EVENT_OBJECT_CREATE", h, DesktopInfo(h, desktop[h]))

\* The engine was built on the desktop d: its store holds the windows of d
\* (_initialize_window_state); no folder path was looked up yet.
InitDup ==
    /\ PollInit /\ SchedInit
    /\ \E d \in Desktops :
          /\ desktop = d
          /\ EngineFresh(<<DuplicatePathRule>>,
                         [h \in DOMAIN d |-> DesktopInfo(h, d[h])], NoFaults)
    /\ folder_path_cache = [h \in {} |-> None]
    /\ foreground_hwnd = 0
    /\ AuxIdle

DupNext ==
    \/ \E h \in Handles, w \in DesktopWindows : OpenWindow(h, w)
    \/ \E h \in Handles : CloseWindow(h)
    \/ \E h \in Handles, f \in Folders : Navigate(h, f)
    \/ \E h \in Handles : ExpireFolderPath(h)
    \/ \E h \in Handles : CreateEvent(h)

SpecDup == InitDup /\ [][DupNext]_vars

(***************************************************************************)
(* CLOSE_DUPLICATE_PATH as a function of what it finds: the open windows,  *)
(* the folder paths cached within the last 300 s (of windows that may have *)
(* closed or gone elsewhere since), the window in front, and the info of   *)
(* the CREATE event, which get_window_info may have served from its cache  *)
(* of 60 s for a handle that another window had before.                    *)
(***************************************************************************)
KeeperHandles == 1..(MaxHandle + 1)

KeeperFolders == {"C:\\Docs", "C:\\Pics"}

KeeperWindows ==
    {[class_name |-> "CabinetWClass", folder |-> f] : f \in KeeperFolders}
    \cup {[class_name |-> "x", folder |-> None]}

\* The infos get_window_info may return for the handle h.
KeeperInfos(h) == {DesktopInfo(h, w) : w \in KeeperWindows}

\* The poll loop delivers CREATE for the open window h with the dict of
\* get_window_info (lines 141-147).
KeeperEvent(h) ==
    /\ h \in DOMAIN desktop
    /\ \E info \in KeeperInfos(h) : ProcessEvent("EVENT_OBJECT_CREATE", h, info)

InitKeeper ==
    /\ PollInit /\ SchedInit
    /\ \E hs \in SUBSET KeeperHandles :
          \E d \in [hs -> KeeperWindows] :
             /\ desktop = d
             /\ EngineFresh(<<DuplicatePathRule>>,
                            [h \in hs |-> DesktopInfo(h, d[h])], NoFaults)
             /\ foreground_hwnd \in hs \cup {0}
    /\ \E cs \in SUBSET KeeperHandles : folder_path_cache \in [cs -> KeeperFolders]
    /\ AuxIdle

KeeperNext == \E h \in KeeperHandles : KeeperEvent(h)

SpecKeeper == InitKeeper /\ [][KeeperNext]_vars

(***************************************************************************)
(* The event counter with threads: the += of line 74 as a read and a write *)
(* of the worker, between which clear_statistics (any thread may call it)  *)
(* or the process_event of a second worker (a stop that timed out, then a  *)
(* start) may run.                                                         *)
(***************************************************************************)
InitStats ==
    /\ PollInit /\ SchedInit
    /\ \E rules \in ContractRuleLists, f \in ContractFaults :
          EngineFresh(rules, EmptyStore, f)
    /\ WorldIdle /\ AuxIdle

StatsNext ==
    \/ LoadEventCount
    \/ \E e \in ContractEvents : StoreEventCount(e.id, e.hwnd, e.window_info)
    \/ \E e \in ContractEvents : OverlappingEvent(e.id, e.hwnd, e.window_info)
    \/ ClearStatistics

SpecStats == InitStats /\ [][StatsNext]_vars

\* The events and the rule list of the repeated match.
ProbeEvents ==
    {[id |-> "EVENT_OBJECT_CREATE", hwnd |-> 1, window_info |-> FullInfo(1, "x")],
     [id |-> "EVENT_OBJECT_CREATE", hwnd |-> 1, window_info |-> NoExeInfo(1)],
     [id |-> "EVENT_OBJECT_DESTROY", hwnd |-> 1, window_info |-> ClosedInfo(1, "x")],
     [id |-> "EVENT_OBJECT_NAMECHANGE", hwnd |-> 2, window_info |-> TitleOnly(2)]}

InitMatch ==
    /\ PollInit /\ SchedInit
    /\ \E c \in InitialStores,
          f \in {NoFaults, [NoFaults EXCEPT !["r1"] = "match_raises"]} :
          EngineFresh(<<ForegroundRule(TRUE), UnknownActionRule(TRUE),
                        CloseOnDestroyRule(TRUE)>>, StoreOf(c), f)
    /\ WorldIdle /\ AuxIdle

MatchNext ==
    \/ \E e \in ProbeEvents : ProcessEvent(e.id, e.hwnd, e.window_info)
    \/ ClearStatistics
    \/ \E i \in 1..MaxRules, e \in ProbeEvents : MatchCall(i, e)

SpecMatch == InitMatch /\ [][MatchNext]_vars

(***************************************************************************)
(* _match_rule_condition as a function of the trigger and of the event:    *)
(* one rule whose trigger sets any of the three conditions, asked about    *)
(* events of two kinds for windows of several titles, classes and paths.   *)
(***************************************************************************)
\* The trigger keys after event_type: each is absent or has its value.
TriggerOptions ==
    [executable_name : {None, "App.exe", "notepad.exe"},
     window_class : {None, "x"},
     title_pattern : {None, "b", "^b", "("}]

TriggerOf(event_type, o) ==
    [k \in {"event_type"} \cup {j \in DOMAIN o : o[j] # None} |->
        IF k = "event_type" THEN event_type ELSE o[k]]

TriggerRules ==
    {[name |-> "r1", enabled |-> TRUE, trigger |-> TriggerOf(t, o),
      action |-> [type |-> "BRING_TO_FOREGROUND"]] :
        t \in {"CREATE", "NAMECHANGE"}, o \in TriggerOptions}

TriggerInfos ==
    {[hwnd |-> 1, title |-> t, class_name |-> c, exe_path |-> x,
      is_visible |-> TRUE, is_top_level |-> TRUE] :
        t \in {"a", "b", "ab", "ba"}, c \in {"x", "X", "y"},
        x \in {"C:\\Apps\\App.EXE", "C:\\Tools\\Notepad.exe", None}}
    \cup {TitleOnly(1), [hwnd |-> 1, class_name |-> "x"]}

TriggerEvents ==
    {[id |-> id, hwnd |-> 1, window_info |-> i] :
        id \in {"EVENT_OBJECT_CREATE", "EVENT_OBJECT_NAMECHANGE", "EVENT_OBJECT_SHOW"},
        i \in TriggerInfos}

InitTrigger ==
    /\ PollInit /\ SchedInit
    /\ \E rule \in TriggerRules : EngineFresh(<<rule>>, EmptyStore, NoFaults)
    /\ WorldIdle /\ AuxIdle

TriggerNext == \E e \in TriggerEvents : MatchCall(1, e)

SpecTrigger == InitTrigger /\ [][TriggerNext]_vars

(***************************************************************************)
(* The target filter and the action helpers: one rule that every CREATE    *)
(* event matches, with any of the three filter flags and any of the four   *)
(* actions that act on the target list, over stores whose windows are      *)
(* hidden, not top-level, of another program or without a path.            *)
(***************************************************************************)
NotepadInfo(h) == [FullInfo(h, "x") EXCEPT !.exe_path = "C:\\Tools\\Notepad.exe"]

WindowKinds(h) ==
    {FullInfo(h, "x"),
     [FullInfo(h, "x") EXCEPT !.is_visible = FALSE],
     [FullInfo(h, "x") EXCEPT !.is_top_level = FALSE],
     [FullInfo(h, "x") EXCEPT !.exe_path = "D:\\Bin\\app.exe"],
     NotepadInfo(h),
     NoExeInfo(h)}

ActionStores ==
    UNION {{st \in [hs -> UNION {WindowKinds(h) : h \in hs}] :
               \A h \in hs : st[h].hwnd = h} : hs \in SUBSET Handles}

TargetActions ==
    {"MINIMIZE_OTHERS_OF_SAME_APP", "BRING_TO_FOREGROUND", "CLOSE_WINDOW",
     "HIDE_WINDOW"}

ActionRules ==
    {[name |-> "r1", enabled |-> TRUE, trigger |-> [event_type |-> "CREATE"],
      action |-> [type |-> t, is_visible |-> v, is_top_level |-> l,
                  exclude_trigger_window |-> x]] :
        t \in TargetActions, v \in BOOLEAN, l \in BOOLEAN, x \in BOOLEAN}

ActionFaults ==
    {[n \in RuleNames |-> IF n = "r1" THEN kind ELSE "none"] :
        kind \in {"none", "fails_on_1", "dispatch_fails"}}

ActionEventsFor(h) ==
    {[id |-> "EVENT_OBJECT_CREATE", hwnd |-> h, window_info |-> i] :
        i \in {FullInfo(h, "x"), NotepadInfo(h), NoExeInfo(h)}}
    \cup
    {[id |-> "EVENT_OBJECT_SHOW", hwnd |-> h, window_info |-> FullInfo(h, "x")]}

ActionEvents == UNION {ActionEventsFor(h) : h \in Handles}

InitAction ==
    /\ PollInit /\ SchedInit
    /\ \E rule \in ActionRules, st \in ActionStores, f \in ActionFaults :
          EngineFresh(<<rule>>, st, f)
    /\ WorldIdle /\ AuxIdle

ActionNext == \E e \in ActionEvents : ProcessEvent(e.id, e.hwnd, e.window_info)

SpecAction == InitAction /\ [][ActionNext]_vars

(***************************************************************************)
(* LRUCache, cache.py lines 15-87: get, set, clear and cleanup_expired     *)
(* under self.lock, with a clock that the calls read.  The cache has room  *)
(* for MaxSize entries that live Ttl ticks.                                *)
(***************************************************************************)
MaxSize == 2
Ttl == 1
MaxClock == 3
MaxKeys == 3

CacheKeys == 1..MaxKeys
CacheValues == {"v", "w"}

\* The keys of the OrderedDict.
KeysOf(c) == {c.cache[i].key : i \in 1..Len(c.cache)}

\* self.cache[key]
ValueOf(c, key) ==
    c.cache[CHOOSE i \in 1..Len(c.cache) : c.cache[i].key = key].value

\* The entries of the OrderedDict without that of the key.
Without(entries, key) ==
    LET Other(e) == e.key # key IN SelectSeq(entries, Other)

\* _remove, lines 55-59.
LruRemove(c, key) ==
    IF key \in KeysOf(c)
      THEN [cache |-> Without(c.cache, key),
            timestamps |-> [k \in (DOMAIN c.timestamps) \ {key} |-> c.timestamps[k]]]
      ELSE c

\* A get that does not look at the timestamp.
LruGetNoExpiry(c, key, now) ==
    IF key \in KeysOf(c)
      THEN [c |-> [c EXCEPT !.cache = Append(Without(c.cache, key),
                                             [key |-> key, value |-> ValueOf(c, key)])],
            value |-> ValueOf(c, key)]
      ELSE [c |-> c, value |-> None]

\* get, lines 25-37: the cache it leaves and the value it returns.
LruGet(c, key, now) ==
    IF key \in KeysOf(c)
      THEN IF now - c.timestamps[key] > Ttl
             THEN [c |-> LruRemove(c, key), value |-> None]
             ELSE [c |-> [c EXCEPT !.cache =
                             Append(Without(c.cache, key),
                                    [key |-> key, value |-> ValueOf(c, key)])],
                   value |-> ValueOf(c, key)]
      ELSE [c |-> c, value |-> None]

\* Lines 45-47 on a cache without the key.
LruAdd(c, key, value, now) ==
    [cache |-> Append(c.cache, [key |-> key, value |-> value]),
     timestamps |-> [k \in (DOMAIN c.timestamps) \cup {key} |->
                        IF k = key THEN now ELSE c.timestamps[k]]]

\* Lines 49-52.
LruEvict(c) ==
    IF Len(c.cache) > MaxSize THEN LruRemove(c, c.cache[1].key) ELSE c

\* A set without the eviction of lines 49-52.
LruSetNoEvict(c, key, value, now) == LruAdd(LruRemove(c, key), key, value, now)

\* set, lines 39-53.
LruSet(c, key, value, now) == LruEvict(LruAdd(LruRemove(c, key), key, value, now))

\* cleanup_expired, lines 70-87: the cache without the expired entries.
LruCleanup(c, now) ==
    [cache |-> LET Fresh(e) == ~(now - c.timestamps[e.key] > Ttl)
               IN  SelectSeq(c.cache, Fresh),
     timestamps |-> [k \in {j \in DOMAIN c.timestamps : ~(now - c.timestamps[j] > Ttl)} |->
                        c.timestamps[k]]]

CacheFrame ==
    UNCHANGED <<pollVars, schedVars, engineVars, worldVars, sort_call, cycle_store,
                cycle_calls, load_call, callerVars, lockVars, cycleVars>>

CacheGet(key) ==
    /\ lru' = LruGet(lru, key, lru_clock).c
    /\ lru_result' = [op |-> "get", odd |-> ~lru_result.odd, key |-> key,
                      value |-> LruGet(lru, key, lru_clock).value]
    /\ UNCHANGED <<lru_clock, lru_last_set>>
    /\ CacheFrame

CacheSet(key, value) ==
    /\ lru' = LruSet(lru, key, value, lru_clock)
    /\ lru_last_set' = [k \in (DOMAIN lru_last_set) \cup {key} |->
                           IF k = key THEN value ELSE lru_last_set[k]]
    /\ lru_result' = [op |-> "set", odd |-> ~lru_result.odd, key |-> key,
                      value |-> value]
    /\ UNCHANGED lru_clock
    /\ CacheFrame

\* clear, lines 61-65.
CacheClear ==
    /\ lru' = EmptyCache
    /\ lru_result' = [op |-> "clear", odd |-> ~lru_result.odd]
    /\ UNCHANGED <<lru_clock, lru_last_set>>
    /\ CacheFrame

CacheCleanup ==
    /\ lru' = LruCleanup(lru, lru_clock)
    /\ lru_result' = [op |-> "cleanup", odd |-> ~lru_result.odd,
                      value |-> Len(lru.cache) - Len(LruCleanup(lru, lru_clock).cache)]
    /\ UNCHANGED <<lru_clock, lru_last_set>>
    /\ CacheFrame

\* Time passes.
CacheTick ==
    /\ lru_clock < MaxClock
    /\ lru_clock' = lru_clock + 1
    /\ UNCHANGED <<lru, lru_last_set, lru_result>>
    /\ CacheFrame

InitCache == PollInit /\ SchedInit /\ EngineIdle /\ WorldIdle /\ AuxIdle

CacheNext ==
    \/ \E k \in CacheKeys : CacheGet(k)
    \/ \E k \in CacheKeys, v \in CacheValues : CacheSet(k, v)
    \/ CacheClear
    \/ CacheCleanup
    \/ CacheTick

SpecCache == InitCache /\ [][CacheNext]_vars

Init == PollInit /\ SchedInit /\ EngineIdle /\ WorldIdle /\ AuxIdle

InitEngine == PollInit /\ SchedInit /\ EngineInit /\ WorldIdle /\ AuxIdle

SpecSort == InitSort /\ [][SortNext]_vars

SpecEngine == InitEngine /\ [][EngineNext]_vars

SpecPoll == Init /\ [][PollNext]_vars

SpecSched == Init /\ [][SchedNext]_vars

\* A statement of the thread of worker w: the OS schedules every thread
\* that can run.
WorkerStep(w) ==
    \/ WorkerInit(w) \/ WorkerInitFails(w) \/ WorkerCheck(w)
    \/ WorkerCycle(w) \/ WorkerCycleError(w) \/ WorkerAcquire(w)
    \/ WorkerRead(w) \/ WorkerSleep(w) \/ WorkerWake(w) \/ WorkerExit(w)

\* A statement of a call of start, stop or set_polling_interval that has
\* begun; whether a call is made is up to the caller.
CallerStep ==
    \/ StartSpawn \/ StartSpawnFails \/ StartSetRunning \/ StartCheckAlive
    \/ StartFail
    \/ StopClearRunning \/ StopCheckAlive \/ StopJoinReturns \/ StopRecheck
    \/ SetIntervalAcquire \/ SetIntervalWrite \/ SetIntervalRelease

\* The scheduler with threads that are not starved, not even a thread
\* that waits for a lock others keep taking, and with time that passes
\* however often the caller calls.
SpecSchedFair ==
    /\ SpecSched
    /\ \A w \in Workers : SF_vars(WorkerStep(w))
    /\ SF_vars(CallerStep)
    /\ SF_vars(Tick)

SpecInterval == Init /\ [][IntervalNext]_vars

(***************************************************************************)
(* Claims about the differencer.                                           *)
(***************************************************************************)
\* The handles of both snapshots whose title and class are equal.
UnchangedWindows(prev, cur) ==
    {h \in (DOMAIN prev) \cap (DOMAIN cur) :
        prev[h].title = cur[h].title /\ prev[h].class_name = cur[h].class_name}

PairwiseDisjoint(A, B, C, D) ==
    /\ A \cap B = {} /\ A \cap C = {} /\ A \cap D = {}
    /\ B \cap C = {} /\ B \cap D = {}
    /\ C \cap D = {}

\* C1: after every completed cycle over the snapshots (P, C), the created,
\* destroyed and changed sets and the unchanged handles are pairwise
\* disjoint and their union is P.keys \cup C.keys.
C1_DiffPartitions ==
    cycle_status = "ok" =>
        LET unchanged == UnchangedWindows(cycle_prev, current_windows) IN
        /\ PairwiseDisjoint(new_windows, closed_windows, changed_windows, unchanged)
        /\ new_windows \cup closed_windows \cup changed_windows \cup unchanged
             = (DOMAIN cycle_prev) \cup (DOMAIN current_windows)
        /\ new_windows \cap closed_windows = {}

\* A cycle in which one window was closed while another changed.
C1_Witness ==
    /\ cycle_status = "ok"
    /\ closed_windows # {}
    /\ changed_windows # {}

\* C2: a completed cycle whose snapshot equals the loop's previous snapshot
\* has empty created, destroyed and changed sets and delivers no event.
C2_SelfDiffEmpty ==
    (cycle_status = "ok" /\ current_windows = cycle_prev) =>
        /\ new_windows = {}
        /\ closed_windows = {}
        /\ changed_windows = {}
        /\ delivered = << >>

C2_Witness ==
    /\ cycle_status = "ok"
    /\ current_windows = cycle_prev
    /\ DOMAIN current_windows = Handles

(***************************************************************************)
(* Claims about the scheduler.                                             *)
(***************************************************************************)
\* A worker whose poll cycle is in progress: past the loop test, before the
\* sleep.
InCycle(w) == wpc[w] \in {"cycle", "lock", "read", "unlock"}

\* A worker that is inside the while loop.
InLoop(w) == InCycle(w) \/ wpc[w] \in {"check", "sleep", "backoff"}

\* C3: at most one worker executes the poll loop, so no two poll cycles are
\* in progress at the same time, whatever start() and stop() calls came
\* before.
C3_CyclesNeverOverlap == Cardinality({w \in Workers : InCycle(w)}) <= 1

\* C4: the running flag is never set while no worker is alive, and when
\* start() has returned True the worker it started is alive, inside the
\* poll loop, with the flag set.
C4_RunningOnlyWithLiveWorker ==
    /\ running => \E w \in Workers : Alive(w)
    /\ (cpc = "idle" /\ last_call.op = "start" /\ last_call.ok) =>
          (running /\ Alive(monitoring_thread) /\ InLoop(monitoring_thread))

\* A step in which the calling thread enters start().
StartIsCalled ==
    /\ cpc = "idle"
    /\ \/ cpc' = "s_spawn"
       \/ cpc' = "idle" /\ last_call' # last_call /\ last_call'.op = "start"

\* C5: start() called while the flag is set returns False at once, creates
\* no thread and leaves the flag, the worker and the interval as they were.
C5_StartWhileRunning ==
    [][(running /\ StartIsCalled) =>
          /\ cpc' = "idle"
          /\ last_call'.op = "start" /\ ~last_call'.ok
          /\ UNCHANGED <<running, monitoring_thread, polling_interval, wpc>>]_vars

C5_Witness ==
    /\ cpc = "idle"
    /\ last_call.op = "start" /\ ~last_call.ok
    /\ running
    /\ monitoring_thread # 0 /\ wpc[monitoring_thread] = "sleep"

\* C6: a stop() called while the flag is set and the worker is inside its
\* inter-cycle sleep returns True with the worker no longer alive.
C6_StopWhileSleepingSucceeds ==
    (cpc = "idle" /\ last_call.op = "stop" /\ stop_in_sleep) =>
        (last_call.ok /\ ~Alive(monitoring_thread))

InRange(x) == x # NaN /\ x >= MinInterval /\ x <= MaxInterval

\* C8: the stored interval is always within [0.1, 60.0]; once
\* set_polling_interval(v) has returned it returned True and the stored
\* interval is 0.1 for v < 0.1, 60.0 for v > 60.0 and v otherwise; a thread
\* that reads or writes the interval holds the interval lock.
C8_IntervalClamped ==
    /\ InRange(polling_interval)
    /\ last_call.op = "set_interval" =>
          /\ last_call.ok
          /\ FloatLess(last_call.arg, MinInterval) => polling_interval = MinInterval
          /\ FloatLess(MaxInterval, last_call.arg) => polling_interval = MaxInterval
          /\ InRange(last_call.arg) => polling_interval = last_call.arg
    /\ cpc \in {"i_write", "g_read"} => interval_lock = Caller
    /\ \A w \in Workers : wpc[w] = "read" => interval_lock = w

(***************************************************************************)
(* Claims about the rule engine (SpecEngine).                              *)
(***************************************************************************)
Count(seq, x) == Cardinality({i \in DOMAIN seq : seq[i] = x})

RuleNamed(name) ==
    rules_config[CHOOSE i \in DOMAIN rules_config : rules_config[i].name = name]

\* The rule's trigger matches the last event and its target list, taken from
\* the store as the event left it, is not empty.
MatchesWithTargets(rule) ==
    /\ MatchRuleCondition(rule, last_event.event_type, last_event.window_info,
                          faults[rule.name] = "match_raises")
    /\ FilterTargetWindows(rule, last_event.window_info, internal_window_state,
                           faults[rule.name] = "filter_raises") # {}

\* C9: after every event, the rules whose trigger was tested are the enabled
\* rules, each once, in descending priority; every enabled rule that matches
\* with a non-empty target list was dispatched exactly once, whatever the
\* rules before it did, and no other rule was dispatched.
C9_AllEnabledRulesInPriorityOrder ==
    last_event # NoEvent =>
        /\ \A i \in DOMAIN rules_config :
              Count(evaluated, rules_config[i].name) =
                  IF rules_config[i].enabled THEN 1 ELSE 0
        /\ \A i, j \in DOMAIN evaluated :
              i < j => Priority(RuleNamed(evaluated[i])) >= Priority(RuleNamed(evaluated[j]))
        /\ \A i \in DOMAIN rules_config :
              Count(dispatch_log, rules_config[i].name) =
                  IF rules_config[i].enabled /\ MatchesWithTargets(rules_config[i])
                    THEN 1 ELSE 0

\* An event for which the third rule of the list went first, the second rule
\* was dispatched after it, and the first rule, disabled, was left out.
C9_Witness ==
    /\ last_event # NoEvent
    /\ ~rules_config[1].enabled
    /\ evaluated = <<"r3", "r2">>
    /\ dispatch_log = <<"r3", "r2">>

RaisingFaults == {"match_raises", "filter_raises", "dispatch_raises"}

\* C10: when the handling of one enabled rule raises an error, every other
\* enabled rule still has its trigger tested for that event, and if it
\* matches with targets it is dispatched and its execution is counted.
C10_ErrorDoesNotBlockOtherRules ==
    last_event # NoEvent =>
        \A i, j \in DOMAIN rules_config :
            (/\ i # j
             /\ rules_config[i].enabled
             /\ rules_config[j].enabled
             /\ faults[rules_config[i].name] \in RaisingFaults)
            => /\ Count(evaluated, rules_config[j].name) = 1
               /\ MatchesWithTargets(rules_config[j]) =>
                     /\ Count(dispatch_log, rules_config[j].name) = 1
                     /\ rules_config[j].name \in DOMAIN rule_execution_count

\* The first rule in priority order was dispatched and its action raised;
\* the two rules after it were dispatched all the same.
C10_Witness ==
    /\ last_event # NoEvent
    /\ Len(dispatch_log) = 3
    /\ faults[dispatch_log[1]] = "dispatch_raises"
    /\ dispatch_log[1] \notin DOMAIN rule_execution_count
    /\ dispatch_log[3] \in DOMAIN rule_execution_count


(***************************************************************************)
(* Claims about the order of the rules, the match and the store.           *)
(***************************************************************************)
\* The place of the rule called name in the list rules (0 when absent).
PositionOf(rules, name) ==
    IF \E i \in 1..Len(rules) : rules[i].name = name
      THEN CHOOSE i \in 1..Len(rules) : rules[i].name = name
      ELSE 0

\* C11: the sort puts the enabled rules in descending priority, a missing
\* priority counting as 0; it neither drops nor adds a rule, and two rules
\* of equal priority keep the order they have in the rule list.
C11_SortStableDescending ==
    sort_call.done =>
        LET in == GetEnabledRules(rules_config)
            out == sort_call.rules
        IN  /\ Len(out) = Len(in)
            /\ \A i \in 1..Len(in) : \E j \in 1..Len(out) : out[j] = in[i]
            /\ \A i, j \in 1..Len(out) :
                   i < j => Priority(out[i]) >= Priority(out[j])
            /\ \A i, j \in 1..Len(in) :
                   (i < j /\ Priority(in[i]) = Priority(in[j]))
                       => PositionOf(out, in[i].name) < PositionOf(out, in[j].name)

\* Three enabled rules were sorted: the last of the list came first, and
\* the first, which has no priority, stayed in front of the second, whose
\* priority is 0.
C11_Witness ==
    /\ sort_call.done
    /\ Len(sort_call.rules) = 3
    /\ sort_call.rules[1].name = "r3"
    /\ sort_call.rules[2].name = "r1"
    /\ sort_call.rules[3].name = "r2"
    /\ "priority" \notin DOMAIN sort_call.rules[2]
    /\ "priority" \in DOMAIN sort_call.rules[3]
    /\ sort_call.rules[3].priority = 0
EventProcessed == event_calls' = event_calls + 1

\* The handles of the OS calls that the rule called name caused.
CalledFor(calls, name) ==
    {calls[k].hwnd : k \in {j \in 1..Len(calls) : calls[j].rule = name}}

\* C13: a process_event call applies its event to the store before the
\* rules run: after CREATE or SHOW the entry of the handle is the info of
\* the event, after DESTROY or HIDE the handle is absent, after NAMECHANGE
\* an existing entry has the fields of the event over its old fields; the
\* other entries stay, and the rules take their targets from the new store
\* (the first rule, unless its helper raised, calls the OS for every entry).
C13_StoreUpdatedBeforeRules ==
    [][EventProcessed =>
        LET ev == last_event'
            h == ev.hwnd
            info == ev.window_info
            old == internal_window_state
            new == internal_window_state'
        IN  /\ \A g \in Handles \ {h} :
                  /\ g \in DOMAIN new <=> g \in DOMAIN old
                  /\ g \in DOMAIN old => new[g] = old[g]
            /\ ev.event_type \in {"CREATE", "SHOW"} =>
                  h \in DOMAIN new /\ new[h] = info
            /\ ev.event_type \in {"DESTROY", "HIDE"} => h \notin DOMAIN new
            /\ (ev.event_type = "NAMECHANGE" /\ h \in DOMAIN old) =>
                  /\ h \in DOMAIN new
                  /\ DOMAIN new[h] = (DOMAIN old[h]) \cup (DOMAIN info)
                  /\ \A k \in DOMAIN new[h] :
                        new[h][k] = IF k \in DOMAIN info THEN info[k] ELSE old[h][k]
            /\ \A k \in 1..Len(os_calls') : os_calls'[k].hwnd \in DOMAIN new
            /\ (/\ \E k \in 1..Len(dispatch_log') : dispatch_log'[k] = "r1"
                /\ faults["r1"] # "dispatch_raises") =>
                  CalledFor(os_calls', "r1") = DOMAIN new]_vars

\* A NAMECHANGE that carried a title only was merged into an entry, which
\* kept its class and its executable.
C13_Witness ==
    /\ last_event.event_type = "NAMECHANGE"
    /\ "class_name" \notin DOMAIN last_event.window_info
    /\ last_event.hwnd \in DOMAIN internal_window_state
    /\ internal_window_state[last_event.hwnd].title = "b"
    /\ internal_window_state[last_event.hwnd].class_name = "x"
    /\ internal_window_state[last_event.hwnd].exe_path = "C:\\Apps\\App.EXE"
\* C14: whenever no process_event call is under way, the event counter is
\* the number of process_event calls made since the last clear.
C14_CounterEqualsCalls ==
    ~count_load.busy => event_count = event_calls - cleared_at
\* perform_action was called for the rule called name and returned status.
Dispatched(log, results, name, status) ==
    \E k \in 1..Len(log) : log[k] = name /\ results[k] = status

\* C15: in one process_event call the execution counter of a rule goes up
\* by one if the rule is enabled, its trigger matched, its target list was
\* not empty and perform_action returned True, and stays as it was in
\* every other case; perform_action is called for a rule exactly when the
\* rule is enabled, matched and has a target.
C15_CountedIffDispatchSucceeded ==
    [][EventProcessed =>
        \A n \in RuleNames :
            LET ev == last_event'
                wanted ==
                    \E i \in 1..Len(rules_config) :
                        LET rule == rules_config[i] IN
                        /\ rule.name = n
                        /\ rule.enabled
                        /\ MatchRuleCondition(rule, ev.event_type, ev.window_info,
                                              faults[n] = "match_raises")
                        /\ FilterTargetWindows(rule, ev.window_info,
                                               internal_window_state',
                                               faults[n] = "filter_raises") # {}
                called == \E k \in 1..Len(dispatch_log') : dispatch_log'[k] = n
                executed == wanted /\ Dispatched(dispatch_log', dispatch_results', n, "ok")
            IN  /\ called <=> wanted
                /\ Get(rule_execution_count', n, 0) - Get(rule_execution_count, n, 0)
                       = IF executed THEN 1 ELSE 0]_vars

\* One event for which perform_action failed for the second rule and
\* succeeded for the first: only the first has a count.
C15_Witness ==
    /\ last_event.event_type = "CREATE"
    /\ dispatch_log = <<"r2", "r1">>
    /\ dispatch_results = <<"fail", "ok">>
    /\ DOMAIN rule_execution_count = {"r1"}
    /\ rule_execution_count["r1"] = 1

\* A matched rule found no target: perform_action was not called for it.
C15_WitnessNoTarget ==
    /\ last_event.event_type = "DESTROY"
    /\ evaluated = <<"r3">>
    /\ internal_window_state = EmptyStore
    /\ dispatch_log = << >>
\* The rules of the list whose action type perform_action does not know.
UnknownTypeRules ==
    {i \in 1..Len(rules_config) : rules_config[i].action.type \notin ActionTypes}

\* C16: when perform_action is called for a rule whose action type it does
\* not know, the call fails, no OS primitive is called for that rule, the
\* rule's execution count stays as it was, the event is counted, and
\* every enabled rule is still evaluated.
C16_UnknownActionFailsQuietly ==
    [][EventProcessed =>
        \A i \in UnknownTypeRules :
            LET n == rules_config[i].name IN
            (\E k \in 1..Len(dispatch_log') : dispatch_log'[k] = n) =>
                /\ Dispatched(dispatch_log', dispatch_results', n, "fail")
                /\ CalledFor(os_calls', n) = {}
                /\ Get(rule_execution_count', n, 0) = Get(rule_execution_count, n, 0)
                /\ event_count' = event_count + 1
                /\ Len(evaluated') = Len(GetEnabledRules(rules_config))
                /\ \A j \in 1..Len(rules_config) :
                      rules_config[j].enabled =>
                          \E k \in 1..Len(evaluated') :
                              evaluated'[k] = rules_config[j].name]_vars

\* The rule of unknown action type was dispatched first and failed; the
\* rule behind it was evaluated and made its OS call.
C16_Witness ==
    /\ last_event.event_type = "CREATE"
    /\ evaluated = <<"r2", "r3", "r1">>
    /\ dispatch_log = <<"r2", "r1">>
    /\ dispatch_results = <<"fail", "ok">>
    /\ "r2" \notin DOMAIN rule_execution_count
    /\ CalledFor(os_calls, "r2") = {}
    /\ CalledFor(os_calls, "r1") # {}
    /\ event_count > 0
(***************************************************************************)
(* Claims about the scenarios of the whole application.                    *)
(***************************************************************************)
\* The step is a poll cycle that began with nothing in the previous
\* snapshot and nothing in the store and found the one window h.
FirstWindowCycle(h) ==
    /\ previous_windows = EmptySnapshot
    /\ internal_window_state = EmptyStore
    /\ DOMAIN current_windows' = {h}
    /\ previous_windows' = current_windows'

\* C17: with the store and the previous snapshot empty and the one enabled
\* rule "CREATE of app.exe: BRING_TO_FOREGROUND", a cycle that finds the
\* single window h reports h as the only new window and delivers one
\* CREATE event for it; if the info of the event names the executable of
\* the rule, exactly one bring_to_foreground call is made, and it is on h.
C17_ScenarioA ==
    [][\A h \in Handles :
          (FirstWindowCycle(h) /\ rules_config = <<ForegroundRule(TRUE)>>) =>
              /\ new_windows' = {h}
              /\ closed_windows' = {}
              /\ changed_windows' = {}
              /\ delivered' = <<[kind |-> "CREATE", hwnd |-> h]>>
              /\ last_event'.event_type = "CREATE" /\ last_event'.hwnd = h
              /\ MatchRuleCondition(ForegroundRule(TRUE), "CREATE",
                                    last_event'.window_info, FALSE) =>
                    cycle_calls' = <<[rule |-> "r1", op |-> "bring_to_foreground",
                                      hwnd |-> h]>>]_vars

\* Scenario A happened for the window 1: the store was empty, the rule
\* matched, and the one OS call of the cycle raised the window.
C17_Witness ==
    /\ cycle_status = "ok"
    /\ cycle_prev = EmptySnapshot
    /\ cycle_store = EmptyStore
    /\ rules_config = <<ForegroundRule(TRUE)>>
    /\ new_windows = {1}
    /\ DOMAIN internal_window_state = {1}
    /\ internal_window_state[1].exe_path = "C:\\Apps\\App.EXE"
    /\ cycle_calls = <<[rule |-> "r1", op |-> "bring_to_foreground", hwnd |-> 1]>>
\* The open explorer windows that show the folder of the window t.
DuplicatesOf(t, windows) ==
    {h \in DOMAIN windows :
        /\ windows[h].class_name = "CabinetWClass"
        /\ PathLower(windows[h].folder) = PathLower(windows[t].folder)}

\* C18: when CLOSE_DUPLICATE_PATH is dispatched for an open explorer
\* window t whose folder other open explorer windows show too (whatever
\* the case of the letters), close_window is called for every one of them
\* and not for t, the last call raises t, and t is in the store afterwards.
C18_DuplicatesClosedTriggerKept ==
    [][EventProcessed =>
        LET t == last_event'.hwnd
            calls == os_calls'
        IN  (/\ \E k \in 1..Len(dispatch_log') : dispatch_log'[k] = "r1"
             /\ rules_config[1].action.type = "CLOSE_DUPLICATE_PATH"
             /\ t \in DOMAIN desktop
             /\ desktop[t].class_name = "CabinetWClass"
             /\ DuplicatesOf(t, desktop) # {t}) =>
                /\ \A h \in DuplicatesOf(t, desktop) \ {t} :
                      \E k \in 1..Len(calls) :
                          calls[k].op = "close_window" /\ calls[k].hwnd = h
                /\ \A k \in 1..Len(calls) :
                      calls[k].op = "close_window" => calls[k].hwnd # t
                /\ Len(calls) > 0
                /\ calls[Len(calls)].op = "bring_to_foreground"
                /\ calls[Len(calls)].hwnd = t
                /\ t \in DOMAIN internal_window_state']_vars
\* A rule record as the rule model describes it: an object with a name,
\* the enabled flag, a trigger object and an action object, whose priority,
\* when it has one, is an integer.
IsRuleRecord(entry) ==
    /\ IsDict(entry)
    /\ {"name", "enabled", "trigger", "action"} \subseteq DOMAIN entry
    /\ IsDict(entry.trigger) /\ "event_type" \in DOMAIN entry.trigger
    /\ IsDict(entry.action) /\ "type" \in DOMAIN entry.action
    /\ "priority_text" \notin DOMAIN entry

\* The event type and the action type of the entry are known ones.
Recognized(entry) ==
    /\ entry.trigger.event_type \in ValidEventTypes
    /\ entry.action.type \in ActionTypes

\* C19: a load keeps, in their order, exactly the entries that are rule
\* records with a recognized event type and action type, whatever else the
\* list holds, the engine is built on them, and no rule with an
\* unrecognized event type or action type is evaluated afterwards.
C19_LoadKeepsExactlyValidRules ==
    load_call.done =>
        /\ load_call.rules =
              SelectSeq(load_call.raw,
                        LAMBDA e : IsRuleRecord(e) /\ Recognized(e))
        /\ rules_config = load_call.rules
        /\ \A k \in 1..Len(evaluated) :
              \E i \in 1..Len(load_call.raw) :
                  /\ IsRuleRecord(load_call.raw[i])
                  /\ load_call.raw[i].name = evaluated[k]
                  /\ Recognized(load_call.raw[i])

\* C20: a worker leaves the polling loop only at the loop test and only
\* when self.running is False; a poll cycle ends either normally or, when
\* it raised, in the sleep of 5 s, and that sleep leads back to the loop
\* test once it has run out.
C20_LoopLeftOnlyWhenStopped ==
    [][\A w \in Workers :
        /\ (InLoop(w) /\ ~InLoop(w)') =>
              (wpc[w] = "check" /\ ~running /\ wpc'[w] = "cleanup")
        /\ (wpc[w] = "cycle" /\ wpc'[w] \notin {"cycle", "lock"}) =>
              (wpc'[w] = "backoff" /\ wtimer'[w] = ErrorBackoff)
        /\ (wpc[w] = "backoff" /\ wpc'[w] # "backoff") =>
              (wpc'[w] = "check" /\ wtimer[w] = 0)]_vars

\* A cycle raised while the monitor was running, the worker slept its 5 s
\* and is about to test the loop condition again.
C20_Witness ==
    \E w \in Workers :
        /\ wpc[w] = "backoff"
        /\ wtimer[w] = 0
        /\ running
        /\ monitoring_thread = w
\* C21: once get_window_state has returned a dict, no step changes both
\* what its holder reads in it and the store: an event or a refresh leaves
\* the returned dict as it was, a write of the holder leaves the store as
\* it was.
C21_StateCopyIndependent ==
    [][(state_copy.taken /\ state_copy'.taken) =>
          \/ state_copy'.value = state_copy.value
          \/ internal_window_state' = internal_window_state]_vars

\* C22: the dict get_statistics returns counts the store entries of the
\* moment of the call, and what its holder reads in it stays the same
\* through every later event and every clear_statistics.
C22_StatisticsCopyFrozen ==
    [][/\ (~stats_copy.taken /\ stats_copy'.taken) =>
            /\ stats_copy'.value.current_windows_tracked
                  = Cardinality(DOMAIN internal_window_state)
            /\ stats_copy'.value.total_events_processed = event_count
            /\ stats_copy'.value.rule_execution_counts = rule_execution_count
       /\ (stats_copy.taken /\ stats_copy'.taken) =>
            StatisticsSeen' = StatisticsSeen]_vars

\* Statistics with a counted rule were returned, then cleared in the
\* engine, and a window was added to the store since.
C22_Witness ==
    /\ stats_copy.taken
    /\ stats_copy.value.rule_execution_counts # NoCounts
    /\ stats_copy.value.total_events_processed > 0
    /\ rule_execution_count = NoCounts
    /\ event_count = 0
    /\ Cardinality(DOMAIN internal_window_state)
          # stats_copy.value.current_windows_tracked
\* C23: whenever a thread holds the store lock, that thread is not inside
\* a window enumeration, a window-detail query or an action primitive.
C23_LockNeverHeldInOSCall ==
    store_lock # "free" => lock_at[store_lock] \notin OSCallPlaces
\* C24: no increment of the event counter is lost: every process_event
\* call leaves the counter one above what the counter was when the call
\* wrote it, whatever clear_statistics and other process_event calls did
\* while the call was under way.
C24_NoIncrementLost ==
    [][EventProcessed => event_count' = event_count + 1]_vars
\* The number of event_callback calls of the last cycle for the event
\* kind and the handle h.
DeliveredCount(kind, h) ==
    Cardinality({i \in DOMAIN delivered : delivered[i] = [kind |-> kind, hwnd |-> h]})

\* C25: after a completed cycle with the previous snapshot P and the
\* current snapshot C, one CREATE was delivered for each handle of C not
\* in P, one DESTROY for each handle of P not in C, one NAMECHANGE for each
\* handle of both whose title or class differs, nothing else, and the
\* previous snapshot is C.
C25_OneEventPerDifference ==
    cycle_status = "ok" =>
        /\ \A h \in Handles :
              /\ DeliveredCount("CREATE", h) =
                    IF h \in DOMAIN current_windows /\ h \notin DOMAIN cycle_prev
                      THEN 1 ELSE 0
              /\ DeliveredCount("DESTROY", h) =
                    IF h \in DOMAIN cycle_prev /\ h \notin DOMAIN current_windows
                      THEN 1 ELSE 0
              /\ DeliveredCount("NAMECHANGE", h) =
                    IF /\ h \in DOMAIN cycle_prev
                       /\ h \in DOMAIN current_windows
                       /\ \/ cycle_prev[h].title # current_windows[h].title
                          \/ cycle_prev[h].class_name # current_windows[h].class_name
                      THEN 1 ELSE 0
        /\ Len(delivered) = Cardinality({h \in Handles :
                                           \E k \in {"CREATE", "DESTROY", "NAMECHANGE"} :
                                              DeliveredCount(k, h) = 1})
        /\ previous_windows = current_windows

\* A cycle that found two new windows after one that found none, and a
\* cycle that found one window closed and the other renamed.
C25_Witness ==
    /\ cycle_status = "ok"
    /\ \/ /\ Cardinality(DOMAIN current_windows \ DOMAIN cycle_prev) = 2
          /\ Len(delivered) = 2
       \/ /\ DOMAIN cycle_prev \ DOMAIN current_windows # {}
          /\ \E h \in DOMAIN current_windows \cap DOMAIN cycle_prev :
                cycle_prev[h].title # current_windows[h].title
          /\ Len(delivered) = 2
\* The base name of the path is the name, letter case aside.
SameProgram(path, name) ==
    \/ path = "C:\\Apps\\App.EXE" /\ name \in {"App.exe", "app.exe", "APP.EXE"}
    \/ path = "C:\\Tools\\Notepad.exe" /\ name \in {"Notepad.exe", "notepad.exe"}

\* The pattern is found somewhere in the title.
FoundInTitle(pattern, title) ==
    \/ pattern = "b" /\ title \in {"b", "ab", "ba"}
    \/ pattern = "^b" /\ title \in {"b", "ba"}

\* C26: the trigger of a rule matches an event exactly when the event kind
\* is the trigger's, the window has an executable path with the trigger's
\* executable name as base name (letter case aside) if the trigger names
\* one, the class of the window is the trigger's class if it names one,
\* and the trigger's title pattern is found in the title if it has one.
C26_MatchIffAllConditions ==
    match_probe.calls > 0 =>
        LET trigger == rules_config[match_probe.rule].trigger
            info == match_probe.event.window_info
        IN  match_probe.first <=>
              /\ trigger.event_type = EventTypeMapping(match_probe.event.id)
              /\ "executable_name" \in DOMAIN trigger =>
                    /\ "exe_path" \in DOMAIN info
                    /\ info.exe_path # None
                    /\ SameProgram(info.exe_path, trigger.executable_name)
              /\ "window_class" \in DOMAIN trigger =>
                    /\ "class_name" \in DOMAIN info
                    /\ info.class_name = trigger.window_class
              /\ "title_pattern" \in DOMAIN trigger =>
                    /\ "title" \in DOMAIN info
                    /\ FoundInTitle(trigger.title_pattern, info.title)

\* A trigger with all three conditions matched a window whose path differs
\* from the executable name in letter case and whose title has the
\* pattern after its first character.
C26_Witness ==
    /\ match_probe.calls > 0
    /\ match_probe.first
    /\ DOMAIN rules_config[1].trigger =
          {"event_type", "executable_name", "window_class", "title_pattern"}
    /\ rules_config[1].trigger.title_pattern = "b"
    /\ match_probe.event.window_info.title = "ab"
    /\ match_probe.event.window_info.exe_path = "C:\\Apps\\App.EXE"
\* The windows of the store that pass the filter flags of the action,
\* without the window t if the action excludes the triggering window.
ExpectedTargets(action, store, t) ==
    {h \in DOMAIN store :
        /\ action.is_visible => store[h].is_visible
        /\ action.is_top_level => store[h].is_top_level
        /\ action.exclude_trigger_window => h # t}

\* The step is a process_event call for a CREATE event, which the rule of
\* the action model matches.
CreateProcessed ==
    /\ EventProcessed
    /\ last_event'.event_type = "CREATE"

\* The execution counter of the rule r1 went up in the step.
Counted ==
    /\ "r1" \in DOMAIN rule_execution_count'
    /\ rule_execution_count'["r1"] =
          1 + (IF "r1" \in DOMAIN rule_execution_count
                 THEN rule_execution_count["r1"] ELSE 0)

\* C27: for a matched rule the targets are the windows of the store after
\* the event that pass the is_visible and is_top_level flags that are set,
\* without the triggering window if exclude_trigger_window is set: the
\* action is dispatched exactly when there is such a window, the
\* primitives of the three simple actions are called on exactly these
\* windows, and the store is the store before the call with the event
\* applied.
C27_TargetsAreFilteredStore ==
    [][CreateProcessed =>
        LET action == rules_config[1].action
            t == last_event'.hwnd
            expected == ExpectedTargets(action, internal_window_state', t)
        IN  /\ (dispatch_log' # << >>) <=> (expected # {})
            /\ action.type # "MINIMIZE_OTHERS_OF_SAME_APP" =>
                  CalledFor(os_calls', "r1") = expected
            /\ internal_window_state' =
                  [h \in (DOMAIN internal_window_state) \cup {t} |->
                      IF h = t THEN last_event'.window_info
                      ELSE internal_window_state[h]]]_vars

\* A rule that wants top-level targets and keeps the triggering window
\* closed the triggering window 2 and left the child window 1 alone.
C27_Witness ==
    /\ event_calls = 1
    /\ rules_config[1].action =
          [type |-> "CLOSE_WINDOW", is_visible |-> FALSE, is_top_level |-> TRUE,
           exclude_trigger_window |-> FALSE]
    /\ last_event.hwnd = 2
    /\ DOMAIN internal_window_state = {1, 2}
    /\ ~internal_window_state[1].is_top_level
    /\ os_calls = <<[rule |-> "r1", op |-> "close_window", hwnd |-> 2]>>

\* The two paths name the same program, letter case aside.
SameBaseName(p, q) ==
    \/ p = q
    \/ {p, q} = {"C:\\Apps\\App.EXE", "D:\\Bin\\app.exe"}

\* C28: MINIMIZE_OTHERS_OF_SAME_APP calls nothing but minimize_window,
\* never on the triggering window and only on targets that are visible,
\* top-level and of the program of the triggering window (letter case
\* aside), and on each of those; the rule counts as executed exactly when
\* one of the calls returned a true value; for a triggering window
\* without an executable path no call is made and nothing is counted.
C28_MinimizeOthersOnly ==
    [][(CreateProcessed /\ rules_config[1].action.type = "MINIMIZE_OTHERS_OF_SAME_APP") =>
        LET t == last_event'.hwnd
            info == last_event'.window_info
            store == internal_window_state'
            called == CalledFor(os_calls', "r1")
        IN  /\ t \notin called
            /\ \A k \in 1..Len(os_calls') : os_calls'[k].op = "minimize_window"
            /\ Len(os_calls') = Cardinality(called)
            /\ called =
                  {h \in ExpectedTargets(rules_config[1].action, store, t) \ {t} :
                      /\ store[h].is_visible
                      /\ store[h].is_top_level
                      /\ store[h].exe_path # None
                      /\ info.exe_path # None
                      /\ SameBaseName(store[h].exe_path, info.exe_path)}
            /\ Counted <=> (called \ FailedHandles(faults["r1"]) # {})
            /\ ~Counted => rule_execution_count' = rule_execution_count
            /\ info.exe_path = None => (called = {} /\ ~Counted)]_vars

\* The rule minimized the window 1, whose path differs in letter case
\* from that of the triggering window 2, which it did not exclude.
C28_Witness ==
    /\ event_calls = 1
    /\ rules_config[1].action.type = "MINIMIZE_OTHERS_OF_SAME_APP"
    /\ ~rules_config[1].action.exclude_trigger_window
    /\ last_event.hwnd = 2
    /\ last_event.window_info.exe_path = "C:\\Apps\\App.EXE"
    /\ DOMAIN internal_window_state = {1, 2}
    /\ internal_window_state[1].exe_path = "D:\\Bin\\app.exe"
    /\ os_calls = <<[rule |-> "r1", op |-> "minimize_window", hwnd |-> 1]>>
    /\ rule_execution_count = [n \in {"r1"} |-> 1]

\* The window_manager primitive of an action that acts on every target.
PrimitiveOf(action_type) ==
    CASE action_type = "BRING_TO_FOREGROUND" -> "bring_to_foreground"
      [] action_type = "CLOSE_WINDOW" -> "close_window"
      [] action_type = "HIDE_WINDOW" -> "hide_window"

\* C29: BRING_TO_FOREGROUND, CLOSE_WINDOW and HIDE_WINDOW call their
\* primitive once on every target, after a call that returned a false
\* value too, and the rule counts as executed exactly when one of the
\* calls returned a true value.
C29_PrimitiveOncePerTarget ==
    [][(CreateProcessed /\ rules_config[1].action.type # "MINIMIZE_OTHERS_OF_SAME_APP") =>
        LET targets == ExpectedTargets(rules_config[1].action,
                                       internal_window_state', last_event'.hwnd)
        IN  /\ \A h \in targets :
                  Cardinality({k \in 1..Len(os_calls') :
                                  os_calls'[k] =
                                     [rule |-> "r1",
                                      op |-> PrimitiveOf(rules_config[1].action.type),
                                      hwnd |-> h]}) = 1
            /\ Len(os_calls') = Cardinality(targets)
            /\ Counted <=> (targets \ FailedHandles(faults["r1"]) # {})
            /\ ~Counted => rule_execution_count' = rule_execution_count]_vars

\* The primitive returned a false value for the window 1 and was called
\* for the window 2 after it, and the rule counted as executed.
C29_Witness ==
    /\ event_calls = 1
    /\ faults["r1"] = "fails_on_1"
    /\ rules_config[1].action.type = "HIDE_WINDOW"
    /\ os_calls = <<[rule |-> "r1", op |-> "hide_window", hwnd |-> 1],
                    [rule |-> "r1", op |-> "hide_window", hwnd |-> 2]>>
    /\ rule_execution_count = [n \in {"r1"} |-> 1]
\* C30: every DESTROY event of a cycle is for a window of the previous
\* snapshot that the current one lacks and carries the title and the
\* class of the previous snapshot, is_visible False and neither a process
\* id nor an executable path; get_window_info is not called for the
\* handle, and every closed window has its DESTROY event.
C30_DestroyedInfoSynthesized ==
    cycle_status = "ok" =>
        /\ \A k \in 1..Len(cycle_events) :
              cycle_events[k].id = "EVENT_OBJECT_DESTROY" =>
                 LET h == cycle_events[k].hwnd
                     info == cycle_events[k].window_info
                 IN  /\ h \in (DOMAIN cycle_prev) \ (DOMAIN current_windows)
                     /\ info.hwnd = h
                     /\ info.title = cycle_prev[h].title
                     /\ info.class_name = cycle_prev[h].class_name
                     /\ info.is_visible = FALSE
                     /\ info.pid = None
                     /\ info.exe_path = None
                     /\ \A q \in 1..Len(info_queries) : info_queries[q] # h
        /\ \A h \in (DOMAIN cycle_prev) \ (DOMAIN current_windows) :
              \E k \in 1..Len(cycle_events) :
                 /\ cycle_events[k].id = "EVENT_OBJECT_DESTROY"
                 /\ cycle_events[k].hwnd = h

\* A cycle found the window 1, titled "b", closed and asked
\* get_window_info about the new window 2 only.
C30_Witness ==
    /\ cycle_status = "ok"
    /\ 1 \in DOMAIN cycle_prev
    /\ cycle_prev[1].title = "b"
    /\ DOMAIN current_windows = {2}
    /\ info_queries = <<2>>
    /\ \E k \in 1..Len(cycle_events) :
          /\ cycle_events[k].id = "EVENT_OBJECT_DESTROY"
          /\ cycle_events[k].hwnd = 1
          /\ cycle_events[k].window_info.title = "b"
\* C31: in a cycle get_window_info is called only for new and for changed
\* windows and at most once for each, so never more often than there are
\* new and changed windows; a window that did not change is not asked
\* about.
C31_QueriesOnlyForChanges ==
    cycle_status = "ok" =>
        /\ \A q \in 1..Len(info_queries) :
              \/ info_queries[q] \in (DOMAIN current_windows) \ (DOMAIN cycle_prev)
              \/ /\ info_queries[q] \in (DOMAIN current_windows) \cap (DOMAIN cycle_prev)
                 /\ current_windows[info_queries[q]] # cycle_prev[info_queries[q]]
        /\ \A p, q \in 1..Len(info_queries) : p # q => info_queries[p] # info_queries[q]
        /\ Len(info_queries) <=
              Cardinality((DOMAIN current_windows) \ (DOMAIN cycle_prev))
                + Cardinality({h \in (DOMAIN current_windows) \cap (DOMAIN cycle_prev) :
                                  current_windows[h] # cycle_prev[h]})

\* A cycle found the window 1 as it was and the window 2 new, and asked
\* about the window 2 only.
C31_Witness ==
    /\ cycle_status = "ok"
    /\ DOMAIN cycle_prev = {1}
    /\ DOMAIN current_windows = {1, 2}
    /\ current_windows[1] = cycle_prev[1]
    /\ info_queries = <<2>>
\* C32: whatever get, set, clear and cleanup_expired calls were made, the
\* cache holds at most MaxSize entries, no key twice, and the keys with a
\* value are the keys with a timestamp.
C32_CacheBoundedAndAligned ==
    /\ Len(lru.cache) <= MaxSize
    /\ Cardinality(KeysOf(lru)) = Len(lru.cache)
    /\ KeysOf(lru) = DOMAIN lru.timestamps

\* The cache is full, a set of a third key has put the oldest key out,
\* and time has passed since.
C32_Witness ==
    /\ Len(lru.cache) = MaxSize
    /\ lru_result.op = "set"
    /\ Cardinality(DOMAIN lru_last_set) > MaxSize
    /\ lru_result.key \in KeysOf(lru)
    /\ lru_clock > 0

\* C33: a get of a key whose entry is older than Ttl returns None and
\* removes the entry, whether or not cleanup_expired has run; a get of a
\* key whose entry is not older returns the value of the last set of the
\* key and keeps the entry.
C33_ExpiryOnRead ==
    [][\A k \in KeysOf(lru) :
          (lru_result' # lru_result /\ lru_result'.op = "get" /\ lru_result'.key = k) =>
              IF lru_clock - lru.timestamps[k] > Ttl
                THEN /\ lru_result'.value = None
                     /\ k \notin KeysOf(lru')
                     /\ k \notin DOMAIN lru'.timestamps
                ELSE /\ lru_result'.value = lru_last_set[k]
                     /\ k \in KeysOf(lru')]_vars

\* A get has returned None for a key that was set, whose entry had
\* outlived Ttl and was still in the cache when the get was made.
C33_Witness ==
    /\ lru_result.op = "get"
    /\ lru_result.value = None
    /\ lru_result.key \in DOMAIN lru_last_set
    /\ lru_clock > Ttl
    /\ Len(lru.cache) = MaxSize - 1
    /\ Cardinality(DOMAIN lru_last_set) = MaxSize
\* C34: after every completed poll cycle the handles of the store are the
\* handles of the snapshot of that cycle, the first cycle after the
\* construction of the engine and the first after a restart included.
C34_StoreHandlesAreSnapshot ==
    cycle_status = "ok" => DOMAIN internal_window_state = DOMAIN current_windows

\* C35: after a cycle every window it delivered a NAMECHANGE event for
\* has, in the store, the title and the class of the snapshot of the cycle.
C35_NameChangeStoresSnapshot ==
    cycle_status = "ok" =>
        \A k \in 1..Len(cycle_events) :
            cycle_events[k].id = "EVENT_OBJECT_NAMECHANGE" =>
                LET h == cycle_events[k].hwnd
                IN  /\ h \in DOMAIN internal_window_state
                    /\ internal_window_state[h].title = current_windows[h].title
                    /\ internal_window_state[h].class_name =
                          current_windows[h].class_name

\* C38: no cycle delivers a CREATE event for a window that the store held
\* with the same title and class when the cycle began.
C38_NoCreateForTrackedWindow ==
    cycle_status = "ok" =>
        \A k \in 1..Len(cycle_events) :
            cycle_events[k].id = "EVENT_OBJECT_CREATE" =>
                LET h == cycle_events[k].hwnd
                IN  ~(/\ h \in DOMAIN cycle_store
                      /\ cycle_store[h].title = current_windows[h].title
                      /\ cycle_store[h].class_name = current_windows[h].class_name)

\* C40: no DESTROY event of a cycle matches a rule whose trigger names an
\* executable, and the engine whose one rule is such a rule on DESTROY
\* events executes nothing and makes no OS call.
C40_ExecutableRuleNeverMatchesDestroy ==
    /\ cycle_status = "ok" =>
          \A k \in 1..Len(cycle_events), i \in 1..Len(rules_config) :
              (/\ cycle_events[k].id = "EVENT_OBJECT_DESTROY"
               /\ "executable_name" \in DOMAIN rules_config[i].trigger) =>
                  ~MatchRuleCondition(rules_config[i], "DESTROY",
                                      cycle_events[k].window_info, FALSE)
    /\ (\E e \in BOOLEAN : rules_config = <<DestroyExeRule(e)>>) =>
          /\ rule_execution_count = NoCounts
          /\ cycle_calls = << >>

\* The window 1 of app.exe was closed while the rule on DESTROY events of
\* app.exe was enabled and the store still held a window to raise: the
\* cycle delivered its DESTROY event and nothing was executed.
C40_Witness ==
    /\ cycle_status = "ok"
    /\ rules_config = <<DestroyExeRule(TRUE)>>
    /\ 1 \in DOMAIN cycle_store
    /\ BaseNameLower(cycle_store[1].exe_path) = "app.exe"
    /\ \E k \in 1..Len(cycle_events) :
          /\ cycle_events[k].id = "EVENT_OBJECT_DESTROY"
          /\ cycle_events[k].hwnd = 1
    /\ last_event.event_type = "DESTROY"
    /\ internal_window_state # EmptyStore
    /\ rule_execution_count = NoCounts
\* C36: every worker alive when stop() has cleared the running flag ends,
\* whatever is called afterwards, start() included.
C36_StoppedWorkerTerminates ==
    \A w \in Workers : (cpc = "t_alive" /\ Alive(w)) ~> (wpc[w] = "dead")
\* C39: after a refresh_window_state that enumerated the titled top-level
\* windows open, the handles of the store are exactly open.
C39_RefreshStoresEnumeration ==
    [][\A open \in SUBSET Handles :
          RefreshWindowState(open) => DOMAIN internal_window_state' = open]_vars
\* The windows _close_duplicate_path takes for duplicates of the window t:
\* the enumerated explorer windows whose looked-up path is that of t.
KeeperDuplicates(t) ==
    {h \in EnumExplorerWindowsWithPaths(folder_path_cache, desktop) :
        PathLower(CachedFolderPath(h, folder_path_cache, desktop))
            = PathLower(CachedFolderPath(t, folder_path_cache, desktop))}

\* C37: in a CLOSE_DUPLICATE_PATH dispatch that closes a window, the
\* window kept and raised is one of the duplicates found for the folder of
\* the trigger, so one of them is not closed.
C37_KeeperIsDuplicate ==
    [][(/\ EventProcessed
        /\ \E k \in 1..Len(os_calls') : os_calls'[k].op = "close_window") =>
          LET calls == os_calls'
              keeper == calls[Len(calls)].hwnd
              dups == KeeperDuplicates(last_event'.hwnd)
          IN  /\ calls[Len(calls)].op = "bring_to_foreground"
              /\ keeper \in dups
              /\ \A k \in 1..Len(calls) :
                    calls[k].op = "close_window" => calls[k].hwnd # keeper
              /\ \E h \in dups : \A k \in 1..Len(calls) :
                    calls[k].op = "close_window" => calls[k].hwnd # h]_vars
====
